---- MODULE Spec2Model ----
(***************************************************************************)
(* Model of github-auto-deployer: the webhook-to-deployment pipeline.      *)
(*                                                                         *)
(* The repository holds two implementations of the pipeline:               *)
(*   "handler": webhook.Handler (internal/webhook/handler.go), the one     *)
(*              cmd/deployer wires in through cli.runStart; it uses        *)
(*              config.WatchedFolder, git.Manager.Pull, the executor with  *)
(*              a timeout and notifier.EmailNotifier;                      *)
(*   "server":  server.Server (internal/server/server.go); it uses         *)
(*              config.WatcherConfig, git.Manager.FetchAndPull, the        *)
(*              "sh -c" executor and email.SMTPClient.                     *)
(* The variable impl says which of the two the process runs.               *)
(*                                                                         *)
(* Strings are sequences of one-character strings, so that prefix          *)
(* stripping, splitting, hex coding and substring search are computed.     *)
(***************************************************************************)
EXTENDS Integers, Sequences, FiniteSets, TLC

VARIABLES
    impl,       \* "handler" or "server": the implementation that runs
    secret,     \* config.GitHub.WebhookSecret
    watchers,   \* cfg.Folders / cfg.Watchers: the registry, in registration order
    req,        \* the webhook request GitHub delivers (and redelivers)
    hpc,        \* per delivery: position of the HTTP handler
    status,     \* per delivery: HTTP status written (0: none yet)
    gpc,        \* per delivery: position of the goroutine started with "go"
    idx,        \* per delivery: index of the target being processed (0: none)
    err,        \* per delivery: the error being reported, or NoErr
    log,        \* per delivery: the operations run so far, in order
    vin,        \* pure function under test: its inputs
    vout,       \* its results, with done = TRUE once it was applied
                \* (SpecStore: the URL stored at registration and its comparison)
    ex,         \* executor.Execute under test: the call, its goroutine, the process
                \* (SpecLive: per delivery, the process of the command)
    reg,        \* the add-folder / remove-folder commands under test
    wc          \* a registered working copy and its remote, for the pull under test

vars == <<impl, secret, watchers, req, hpc, status, gpc, idx, err, log, vin, vout, ex, reg, wc>>

pipeVars == <<impl, secret, watchers, req, hpc, status, gpc, idx, err, log>>

-----------------------------------------------------------------------------
(* Bounds                                                                  *)

\* number of times the request is delivered (deliveries may overlap)
MaxDeliveries == 1

Deliveries == 1..MaxDeliveries

\* placeholders of the variables a specification does not use
NoRequest == [method |-> "none"]

NoResult == [done |-> FALSE, handler |-> FALSE, server |-> FALSE]

NoExec == [mpc |-> "none"]

NoRegistry == [pc |-> "none"]

NoCheckout == [pc |-> "none"]

-----------------------------------------------------------------------------
(* Strings                                                                 *)

HasPrefix(s, p) ==
    /\ Len(s) >= Len(p)
    /\ SubSeq(s, 1, Len(p)) = p

\* strings.TrimPrefix
TrimPrefix(s, p) ==
    IF HasPrefix(s, p) THEN SubSeq(s, Len(p) + 1, Len(s)) ELSE s

\* strings.Contains
Contains(s, sub) ==
    \E i \in 1..(Len(s) - Len(sub) + 1) : SubSeq(s, i, i + Len(sub) - 1) = sub

\* position of the first occurrence of character c in s, 0 if none
IndexByte(s, c) ==
    IF \E i \in 1..Len(s) : s[i] = c
    THEN CHOOSE i \in 1..Len(s) : s[i] = c /\ \A j \in 1..(i - 1) : s[j] # c
    ELSE 0

Sha256Prefix == <<"s","h","a","2","5","6","=">>

HexDigits == <<"0","1","2","3","4","5","6","7","8","9","a","b","c","d","e","f">>

UpperHexDigits == <<"0","1","2","3","4","5","6","7","8","9","A","B","C","D","E","F">>

\* hex.EncodeToString: two lower-case digits per byte
RECURSIVE EncodeToString(_)
EncodeToString(bytes) ==
    IF bytes = <<>> THEN <<>>
    ELSE <<HexDigits[(Head(bytes) \div 16) + 1], HexDigits[(Head(bytes) % 16) + 1]>>
             \o EncodeToString(Tail(bytes))

IsHexChar(c) ==
    \E i \in 1..16 : HexDigits[i] = c \/ UpperHexDigits[i] = c

HexValue(c) ==
    (CHOOSE i \in 1..16 : HexDigits[i] = c \/ UpperHexDigits[i] = c) - 1

RECURSIVE DecodePairs(_)
DecodePairs(s) ==
    IF s = <<>> THEN <<>>
    ELSE <<HexValue(s[1]) * 16 + HexValue(s[2])>> \o DecodePairs(SubSeq(s, 3, Len(s)))

\* hex.DecodeString: either case is accepted; an odd length or a character
\* that is no hex digit is an error
DecodeString(s) ==
    IF Len(s) % 2 = 0 /\ \A i \in 1..Len(s) : IsHexChar(s[i])
    THEN [ok |-> TRUE, bytes |-> DecodePairs(s)]
    ELSE [ok |-> FALSE, bytes |-> <<>>]

-----------------------------------------------------------------------------
(* Webhook payloads and the keyed digest                                   *)

MainRef == <<"r","e","f","s","/","h","e","a","d","s","/","m","a","i","n">>

StgRef == <<"r","e","f","s","/","h","e","a","d","s","/","s","t","g">>

DevRef == <<"r","e","f","s","/","h","e","a","d","s","/","d","e","v">>

GitHubURL == <<"h","t","t","p","s",":","/","/","g","i","t","h","u","b",".","c","o","m","/">>

DotGit == <<".","g","i","t">>

\* the body GitHub sends for a push to owner/name: clone_url is the HTTPS
\* form of the repository, owner and name in GitHub's spelling
PushBody(owner, name, ref) ==
    [json |-> TRUE, ref |-> ref, owner |-> owner, name |-> name,
     clone_url |-> GitHubURL \o owner \o <<"/">> \o name \o DotGit]

\* a body json.Unmarshal rejects
BadBody == [json |-> FALSE]

\* the bodies delivered, in a fixed order (the order is the digest's input)
Payloads ==
    << PushBody(<<"O">>, <<"r">>, MainRef),
       PushBody(<<"O">>, <<"r">>, StgRef),
       PushBody(<<"O">>, <<"r">>, DevRef),
       PushBody(<<"O">>, <<"z">>, MainRef),
       BadBody >>

Secrets == << <<"k","1">>, <<"k","2">> >>

Algs == <<"sha1", "sha256", "sha512">>

IndexOf(seq, x) == CHOOSE i \in 1..Len(seq) : seq[i] = x

\* hmac.New(hash, key); mac.Write(payload); mac.Sum(nil).  The digest is
\* abstracted to one byte that is different for every (hash, key, payload)
\* of the bounded domain.
HMAC(alg, key, payload) ==
    << (IndexOf(Algs, alg) + 5 * IndexOf(Secrets, key)
          + 16 * IndexOf(Payloads, payload) + 3) % 256 >>

\* Handler.verifySignature with one check dropped: any non-empty header passes
verifySignature_NoCompare(payload, signature, key) ==
    signature # <<>>

\* Handler.verifySignature
verifySignature(payload, signature, key) ==
    IF signature = <<>> THEN FALSE
    ELSE LET sig == TrimPrefix(signature, Sha256Prefix)
             expectedMAC == EncodeToString(HMAC("sha256", key, payload))
         IN  sig = expectedMAC

\* go-github messageMAC: "<hash>=<hex>" split at the first "="
messageMAC(signature) ==
    LET eq == IndexByte(signature, "=")
        name == SubSeq(signature, 1, eq - 1)
        dec == DecodeString(SubSeq(signature, eq + 1, Len(signature)))
        alg == IF name = <<"s","h","a","1">> THEN "sha1"
               ELSE IF name = <<"s","h","a","2","5","6">> THEN "sha256"
               ELSE IF name = <<"s","h","a","5","1","2">> THEN "sha512"
               ELSE "unknown"
    IN  IF signature = <<>> \/ eq = 0 \/ alg = "unknown" \/ ~dec.ok
        THEN [ok |-> FALSE, alg |-> "unknown", mac |-> <<>>]
        ELSE [ok |-> TRUE, alg |-> alg, mac |-> dec.bytes]

\* github.ValidateWebhookSignature -> go-github ValidateSignature
ValidateWebhookSignature(payload, signature, key) ==
    LET m == messageMAC(signature)
    IN  m.ok /\ m.mac = HMAC(m.alg, key, payload)

\* the signature GitHub computes: "sha256=" + hex(HMAC-SHA256(key, payload))
CorrectSignature(payload, key) ==
    Sha256Prefix \o EncodeToString(HMAC("sha256", key, payload))

-----------------------------------------------------------------------------
(* The signature check on its own: both verifiers applied to one header    *)

FlipAlphabet == {"0", "1", "2", "9", "a", "A", "b", "c", "C", "f", "F", "g", "s", "="}

\* every header that differs from h in exactly one byte
Flips(h) ==
    { [h EXCEPT ![i] = c] : i \in 1..Len(h), c \in FlipAlphabet } \ {h}

ToUpperHex(s) ==
    [i \in 1..Len(s) |->
        IF \E k \in 11..16 : HexDigits[k] = s[i]
        THEN UpperHexDigits[CHOOSE k \in 11..16 : HexDigits[k] = s[i]]
        ELSE s[i]]

AlgPrefix(alg) ==
    IF alg = "sha1" THEN <<"s","h","a","1","=">>
    ELSE IF alg = "sha256" THEN Sha256Prefix
    ELSE <<"s","h","a","5","1","2","=">>

\* the payloads the headers under test are made from
VerifyPayloads == { Payloads[1], Payloads[2], Payloads[5] }

SecretSet == { Secrets[i] : i \in 1..Len(Secrets) }

AlgSet == { Algs[i] : i \in 1..Len(Algs) }

\* headers made from the digest of (alg, key, payload): well formed, bare,
\* upper case, doubly prefixed, cut short, and with one byte replaced
HeadersOf(alg, key, payload) ==
    LET hex == EncodeToString(HMAC(alg, key, payload))
        h == AlgPrefix(alg) \o hex
    IN  { h, hex, AlgPrefix(alg) \o ToUpperHex(hex), ToUpperHex(hex),
          Sha256Prefix \o h, SubSeq(h, 1, Len(h) - 1), AlgPrefix(alg) }
          \cup Flips(h)

Headers ==
    { <<>> } \cup
    UNION { HeadersOf(a, k, p) : a \in AlgSet, k \in SecretSet, p \in VerifyPayloads }

ToLowerHex(s) ==
    [i \in 1..Len(s) |->
        IF \E k \in 11..16 : UpperHexDigits[k] = s[i]
        THEN HexDigits[CHOOSE k \in 11..16 : UpperHexDigits[k] = s[i]]
        ELSE s[i]]

\* header names the hash and spells, in either letter case, the digest of the
\* payload under that hash
SpellsDigest(header, payload, key) ==
    \E a \in AlgSet :
        /\ HasPrefix(header, AlgPrefix(a))
        /\ ToLowerHex(TrimPrefix(header, AlgPrefix(a))) = EncodeToString(HMAC(a, key, payload))

\* C1 as stated: the correct signature verifies, and every header that differs
\* from it (the empty one included) is rejected, by both verifiers.
C1_AsStated ==
    vout.done =>
        LET ok == vin.header = CorrectSignature(vin.payload, vin.secret)
        IN  /\ vout.handler = ok
            /\ vout.server = ok

\* C1 amended: both verifiers accept the correct signature and reject the empty
\* header; Handler.verifySignature accepts exactly the correct signature and the
\* bare hex digest without the "sha256=" prefix; ValidateWebhookSignature accepts
\* exactly the headers "<hash>=<hex>", hash one of sha1, sha256, sha512, whose hex
\* digits spell in either letter case the HMAC of the payload under that hash.
C1_VerifyAccepts ==
    vout.done =>
        LET correct == CorrectSignature(vin.payload, vin.secret)
            bare == EncodeToString(HMAC("sha256", vin.secret, vin.payload))
        IN  /\ vin.header = correct => vout.handler /\ vout.server
            /\ vin.header = <<>> => ~vout.handler /\ ~vout.server
            /\ vout.handler <=> vin.header \in {correct, bare}
            /\ vout.server <=> SpellsDigest(vin.header, vin.payload, vin.secret)

\* the bare digest, a header that differs from the correct signature, has been
\* checked: accepted by the handler, rejected by the server
C1_Witness ==
    /\ vout.done
    /\ vin.header = EncodeToString(HMAC("sha256", vin.secret, vin.payload))
    /\ vout.handler
    /\ ~vout.server

-----------------------------------------------------------------------------
(* URLs and the registry                                                   *)

HasSuffix(s, p) ==
    /\ Len(s) >= Len(p)
    /\ SubSeq(s, Len(s) - Len(p) + 1, Len(s)) = p

\* strings.TrimSuffix
TrimSuffix(s, p) ==
    IF HasSuffix(s, p) THEN SubSeq(s, 1, Len(s) - Len(p)) ELSE s

UpperLetters ==
    <<"A","B","C","D","E","F","G","H","I","J","K","L","M",
      "N","O","P","Q","R","S","T","U","V","W","X","Y","Z">>

LowerLetters ==
    <<"a","b","c","d","e","f","g","h","i","j","k","l","m",
      "n","o","p","q","r","s","t","u","v","w","x","y","z">>

\* unicode.ToLower on the upper-case ASCII letters
LowerOf ==
    [c \in { UpperLetters[k] : k \in 1..Len(UpperLetters) } |->
        LowerLetters[CHOOSE k \in 1..Len(UpperLetters) : UpperLetters[k] = c]]

\* strings.ToLower
ToLower(s) ==
    [i \in 1..Len(s) |-> IF s[i] \in DOMAIN LowerOf THEN LowerOf[s[i]] ELSE s[i]]

GitAt == <<"g","i","t","@">>

HttpsScheme == <<"h","t","t","p","s",":","/","/">>

HttpScheme == <<"h","t","t","p",":","/","/">>

\* strings.Replace(s, ":", "/", 1)
ReplaceFirstColon(s) ==
    LET i == IndexByte(s, ":")
    IN  IF i = 0 THEN s ELSE [s EXCEPT ![i] = "/"]

\* git.normalizeGitURL without the final strings.ToLower
normalizeGitURL_NoLower(url) ==
    LET u1 == TrimSuffix(url, DotGit)
        u2 == IF HasPrefix(u1, GitAt)
              THEN HttpsScheme \o TrimPrefix(ReplaceFirstColon(u1), GitAt)
              ELSE u1
    IN  IF ~HasPrefix(u2, HttpScheme) /\ ~HasPrefix(u2, HttpsScheme)
        THEN HttpsScheme \o u2
        ELSE u2

\* git.normalizeGitURL putting "https://" in front whatever the URL begins with
normalizeGitURL_AlwaysPrefix(url) ==
    LET u1 == TrimSuffix(url, DotGit)
        u2 == IF HasPrefix(u1, GitAt)
              THEN HttpsScheme \o TrimPrefix(ReplaceFirstColon(u1), GitAt)
              ELSE u1
    IN  ToLower(HttpsScheme \o u2)

\* git.normalizeGitURL
normalizeGitURL(url) ==
    LET u1 == TrimSuffix(url, DotGit)
        u2 == IF HasPrefix(u1, GitAt)
              THEN HttpsScheme \o TrimPrefix(ReplaceFirstColon(u1), GitAt)
              ELSE u1
        u3 == IF ~HasPrefix(u2, HttpScheme) /\ ~HasPrefix(u2, HttpsScheme)
              THEN HttpsScheme \o u2
              ELSE u2
    IN  ToLower(u3)

\* git.CompareURLs
CompareURLs(url1, url2) ==
    normalizeGitURL(url1) = normalizeGitURL(url2)

\* strings.Split(s, "/")
RECURSIVE SplitSlash(_)
SplitSlash(s) ==
    LET i == IndexByte(s, "/")
    IN  IF i = 0 THEN <<s>>
        ELSE <<SubSeq(s, 1, i - 1)>> \o SplitSlash(SubSeq(s, i + 1, Len(s)))

GitHubSSH == <<"g","i","t","@","g","i","t","h","u","b",".","c","o","m",":">>

\* git.ParseRepoInfo
ParseRepoInfo(url) ==
    LET u == TrimSuffix(url, DotGit)
        parts == IF HasPrefix(u, GitHubURL) THEN SplitSlash(TrimPrefix(u, GitHubURL))
                 ELSE IF HasPrefix(u, GitHubSSH) THEN SplitSlash(TrimPrefix(u, GitHubSSH))
                 ELSE <<>>
    IN  IF Len(parts) >= 2
        THEN [ok |-> TRUE, owner |-> parts[1], repo |-> parts[2]]
        ELSE [ok |-> FALSE, owner |-> <<>>, repo |-> <<>>]

\* A registered target.  The handler's registration (cli.runAddFolder) stores
\* the path, the command, the branch checked out and GetRemoteURL(), which is
\* the normalized remote URL; the server's watcher carries the owner and the
\* name ParseRepoInfo extracts from the remote URL.
Register(path, remote, branch, command) ==
    [Path |-> path, Command |-> command, Branch |-> branch,
     RepoURL |-> normalizeGitURL(remote),
     RepoOwner |-> ParseRepoInfo(remote).owner,
     RepoName |-> ParseRepoInfo(remote).repo]

MainBranch == <<"m","a","i","n">>

StgBranch == <<"s","t","g">>

\* remote.origin.url of the local clones
RemoteHTTPS == GitHubURL \o <<"O","/","r",".","g","i","t">>

RemoteSSH == GitHubSSH \o <<"O","/","r",".","g","i","t">>

DeployCmd == <<"m","k">>

\* the registries the process is started with
Registries ==
    { \* two environments of one repository, staging registered first
      << Register("/stg", RemoteHTTPS, StgBranch, DeployCmd),
         Register("/prod", RemoteHTTPS, MainBranch, DeployCmd) >>,
      \* two clones of the same repository and branch
      << Register("/a", RemoteHTTPS, MainBranch, <<>>),
         Register("/b", RemoteHTTPS, MainBranch, <<>>) >>,
      \* one clone with an SSH remote
      << Register("/c", RemoteSSH, MainBranch, <<>>) >> }

-----------------------------------------------------------------------------
(* Requests                                                                *)

\* X-Hub-Signature-256 values sent with a body: the correct signature, none,
\* and the signature under another secret; one body is also sent with the
\* digest without its prefix
SignaturesOf(body) ==
    { CorrectSignature(body, Secrets[1]),
      <<>>,
      CorrectSignature(body, Secrets[2]) }
    \cup (IF body = Payloads[3]
          THEN { EncodeToString(HMAC("sha256", Secrets[1], body)) }
          ELSE {})

PayloadSet == { Payloads[i] : i \in 1..Len(Payloads) }

Requests ==
    UNION { [method : {"POST"}, sig : SignaturesOf(b), event : {"push", "ping"}, body : {b}]
              : b \in PayloadSet }
    \cup { [method |-> "GET", sig |-> CorrectSignature(Payloads[1], Secrets[1]),
            event |-> "push", body |-> Payloads[1]] }

-----------------------------------------------------------------------------
(* What git, the command and the mail server may answer                    *)

ConflictMarker == <<"C","O","N","F","L","I","C","T">>

Fatal == <<"f","a","t","a","l">>

\* git fetch: exit status and output
FetchResults ==
    { [exit |-> 0, stdout |-> <<>>, stderr |-> <<>>],
      \* a failed fetch whose error text names a ref called CONFLICT
      [exit |-> 1, stdout |-> <<>>, stderr |-> Fatal \o ConflictMarker] }

\* git pull: exit status, standard output and standard error
PullResults ==
    { [exit |-> 0, stdout |-> <<"o","k">>, stderr |-> <<>>],
      \* a clean pull whose summary names a file called CONFLICT
      [exit |-> 0, stdout |-> ConflictMarker, stderr |-> <<>>],
      [exit |-> 1, stdout |-> ConflictMarker, stderr |-> <<>>],
      [exit |-> 1, stdout |-> <<>>, stderr |-> ConflictMarker],
      [exit |-> 1, stdout |-> <<>>, stderr |-> Fatal] }

NoErr == [kind |-> "none", msg |-> <<>>]

\* cmd.CombinedOutput()
CombinedOutput(r) == r.stdout \o r.stderr

-----------------------------------------------------------------------------
(* Pure steps of the two pipelines                                         *)

RefsHeads == <<"r","e","f","s","/","h","e","a","d","s","/">>

\* server.extractBranchFromRef with >= in place of >
extractBranchFromRef_AtLeast(ref) ==
    IF Len(ref) >= Len(RefsHeads) /\ SubSeq(ref, 1, Len(RefsHeads)) = RefsHeads
    THEN SubSeq(ref, Len(RefsHeads) + 1, Len(ref))
    ELSE ref

\* server.extractBranchFromRef
extractBranchFromRef(ref) ==
    IF Len(ref) > Len(RefsHeads) /\ SubSeq(ref, 1, Len(RefsHeads)) = RefsHeads
    THEN SubSeq(ref, Len(RefsHeads) + 1, Len(ref))
    ELSE ref

\* Handler.processPushEvent: branch := strings.TrimPrefix(event.Ref, "refs/heads/")
handlerBranch(ref) == TrimPrefix(ref, RefsHeads)

\* Handler.processPushEvent, the two checks of the loop body
folderMatches(folder, event) ==
    /\ CompareURLs(folder.RepoURL, event.clone_url)
    /\ folder.Branch = handlerBranch(event.ref)

\* Handler.processPushEvent with "break" after the first match: no later folder
NextMatch_FirstOnly(folders, event, from) ==
    IF from = 1 /\ \E i \in 1..Len(folders) : folderMatches(folders[i], event)
    THEN CHOOSE i \in 1..Len(folders) :
             /\ folderMatches(folders[i], event)
             /\ \A j \in 1..(i - 1) : ~folderMatches(folders[j], event)
    ELSE 0

\* Handler.processPushEvent: the loop runs on from folder `from` to the next
\* folder that passes both checks (0: the loop ends)
NextMatch(folders, event, from) ==
    IF \E i \in from..Len(folders) : folderMatches(folders[i], event)
    THEN CHOOSE i \in from..Len(folders) :
             /\ folderMatches(folders[i], event)
             /\ \A j \in from..(i - 1) : ~folderMatches(folders[j], event)
    ELSE 0

\* Config.GetWatcherByRepo: index of the first watcher of owner/name (0: error)
GetWatcherByRepo(ws, owner, name) ==
    IF \E i \in 1..Len(ws) : ws[i].RepoOwner = owner /\ ws[i].RepoName = name
    THEN CHOOSE i \in 1..Len(ws) :
             /\ ws[i].RepoOwner = owner /\ ws[i].RepoName = name
             /\ \A j \in 1..(i - 1) : ~(ws[j].RepoOwner = owner /\ ws[j].RepoName = name)
    ELSE 0

\* Server.handlePushEvent without the branch check
serverTarget_NoBranchCheck(ws, event) ==
    GetWatcherByRepo(ws, event.owner, event.name)

\* Server.handlePushEvent up to "Processing deployment": the watcher deployed (0: none)
serverTarget(ws, event) ==
    LET i == GetWatcherByRepo(ws, event.owner, event.name)
    IN  IF i # 0 /\ ws[i].Branch = extractBranchFromRef(event.ref) THEN i ELSE 0

\* git.Manager.Pull going on to the pull whatever the fetch returned
Pull_fetchError_Ignored(r) == NoErr

\* git.Manager.Pull, the fetch: the error returned to processUpdate, if any
Pull_fetchError(r) ==
    IF r.exit # 0
    THEN [kind |-> "failure",
          msg |-> <<"git pull failed: ", "git fetch failed: ">> \o CombinedOutput(r)]
    ELSE NoErr

\* git.Manager.Pull failing also on a clean pull whose output has the marker
Pull_pullError_Marker(r) ==
    IF r.exit # 0 \/ Contains(CombinedOutput(r), ConflictMarker)
    THEN [kind |-> "failure",
          msg |-> <<"git pull failed: ", "git pull failed: ">> \o CombinedOutput(r)]
    ELSE NoErr

\* git.Manager.Pull, the pull: the error returned to processUpdate, if any
Pull_pullError(r) ==
    IF r.exit # 0
    THEN [kind |-> "failure",
          msg |-> <<"git pull failed: ", "git pull failed: ">> \o CombinedOutput(r)]
    ELSE NoErr

\* git.Manager.FetchAndPull, the fetch
FetchAndPull_fetchError(r) ==
    IF r.exit # 0
    THEN [kind |-> "failure", msg |-> <<"git fetch failed: ">> \o r.stderr]
    ELSE NoErr

\* git.Manager.FetchAndPull classifying on the output alone, whatever the exit status
FetchAndPull_pullError_AnyExit(r) ==
    IF Contains(r.stderr, ConflictMarker) \/ Contains(r.stdout, ConflictMarker)
    THEN [kind |-> "conflict", msg |-> <<"merge conflict: ">> \o r.stderr \o r.stdout]
    ELSE IF r.exit # 0
    THEN [kind |-> "failure", msg |-> <<"git pull failed: ">> \o r.stderr]
    ELSE NoErr

\* git.Manager.FetchAndPull without the conflict check
FetchAndPull_pullError_NoConflict(r) ==
    IF r.exit # 0
    THEN [kind |-> "failure", msg |-> <<"git pull failed: ">> \o r.stderr]
    ELSE NoErr

\* git.Manager.FetchAndPull, the pull: a ConflictError ("conflict"), another
\* error ("failure") or nil
FetchAndPull_pullError(r) ==
    IF r.exit # 0
    THEN IF Contains(r.stderr, ConflictMarker) \/ Contains(r.stdout, ConflictMarker)
         THEN [kind |-> "conflict", msg |-> <<"merge conflict: ">> \o r.stderr \o r.stdout]
         ELSE [kind |-> "failure", msg |-> <<"git pull failed: ">> \o r.stderr]
    ELSE NoErr

\* how executor.Execute may end.  The handler's executor races the process
\* against a timer; the server's waits for the process.
ExecuteOutcomes(i) ==
    IF i = "handler" THEN {"ok", "failed", "timeout"} ELSE {"ok", "failed"}

-----------------------------------------------------------------------------
(* The server process: one request, delivered MaxDeliveries times.  The    *)
(* body of every delivery is received in full (io.ReadAll succeeds).       *)

Init ==
    /\ impl \in {"handler", "server"}
    /\ secret = Secrets[1]
    /\ watchers \in Registries
    /\ req \in Requests
    /\ hpc = [d \in Deliveries |-> "idle"]
    /\ status = [d \in Deliveries |-> 0]
    /\ gpc = [d \in Deliveries |-> "none"]
    /\ idx = [d \in Deliveries |-> 0]
    /\ err = [d \in Deliveries |-> NoErr]
    /\ log = [d \in Deliveries |-> <<>>]
    /\ vin = [secret |-> Secrets[1], payload |-> Payloads[1], header |-> <<>>]
    /\ vout = NoResult
    /\ ex = NoExec
    /\ reg = NoRegistry
    /\ wc = NoCheckout

config == <<impl, secret, watchers, req, vin, vout, ex, reg, wc>>

\* deliveries are numbered in the order in which their handlers start
Arrives(d) ==
    /\ hpc[d] = "idle"
    /\ \A e \in DOMAIN hpc : e < d => hpc[e] # "idle"

\* the handler writes status code c and returns
Reply(d, c) ==
    /\ hpc' = [hpc EXCEPT ![d] = "done"]
    /\ status' = [status EXCEPT ![d] = c]
    /\ UNCHANGED <<gpc, idx, err, log, config>>

\* "go ...": the goroutine exists, the handler goes on to write the response
Go(d) ==
    /\ hpc' = [hpc EXCEPT ![d] = "respond"]
    /\ gpc' = [gpc EXCEPT ![d] = "start"]
    /\ UNCHANGED <<status, idx, err, log, config>>

\* Handler.ServeHTTP with the response written only when the goroutine is done
ServeHTTP_Respond_Sync(d) ==
    /\ impl = "handler"
    /\ hpc[d] = "respond"
    /\ gpc[d] = "done"
    /\ Reply(d, 200)

\* Handler.ServeHTTP with the event type looked at before the signature
ServeHTTP_EventFirst(d) ==
    /\ impl = "handler"
    /\ Arrives(d)
    /\ IF req.method # "POST" THEN Reply(d, 405)
       ELSE IF req.event # "push" THEN Reply(d, 200)
       ELSE IF ~verifySignature(req.body, req.sig, secret) THEN Reply(d, 401)
       ELSE IF ~req.body.json THEN Reply(d, 400)
       ELSE Go(d)

\* Handler.ServeHTTP with the event type looked at after the body is parsed
ServeHTTP_ParseFirst(d) ==
    /\ impl = "handler"
    /\ Arrives(d)
    /\ IF req.method # "POST" THEN Reply(d, 405)
       ELSE IF ~verifySignature(req.body, req.sig, secret) THEN Reply(d, 401)
       ELSE IF ~req.body.json THEN Reply(d, 400)
       ELSE IF req.event # "push" THEN Reply(d, 200)
       ELSE Go(d)

\* Handler.ServeHTTP, from the method check to the go statement
ServeHTTP(d) ==
    /\ impl = "handler"
    /\ Arrives(d)
    /\ IF req.method # "POST" THEN Reply(d, 405)
       ELSE IF ~verifySignature(req.body, req.sig, secret) THEN Reply(d, 401)
       ELSE IF req.event # "push" THEN Reply(d, 200)
       ELSE IF ~req.body.json THEN Reply(d, 400)
       ELSE Go(d)

\* Handler.ServeHTTP after the go statement: w.WriteHeader(http.StatusOK)
ServeHTTP_Respond(d) ==
    /\ impl = "handler"
    /\ hpc[d] = "respond"
    /\ Reply(d, 200)

\* Server.handleWebhook with the parse error not reported
handleWebhook_NoParseError(d) ==
    /\ impl = "server"
    /\ Arrives(d)
    /\ IF req.method # "POST" THEN Reply(d, 405)
       ELSE IF ~ValidateWebhookSignature(req.body, req.sig, secret) THEN Reply(d, 401)
       ELSE IF req.event # "push" THEN Reply(d, 200)
       ELSE IF ~req.body.json THEN Reply(d, 200)
       ELSE Go(d)

\* Server.handleWebhook skipping a push for which a run was already started
handleWebhook_Dedup(d) ==
    /\ impl = "server"
    /\ Arrives(d)
    /\ IF req.method # "POST" THEN Reply(d, 405)
       ELSE IF ~ValidateWebhookSignature(req.body, req.sig, secret) THEN Reply(d, 401)
       ELSE IF req.event # "push" THEN Reply(d, 200)
       ELSE IF ~req.body.json THEN Reply(d, 400)
       ELSE IF \E e \in DOMAIN hpc : gpc[e] # "none" THEN Reply(d, 200)
       ELSE Go(d)

\* Server.handleWebhook, from the method check to the go statement
handleWebhook(d) ==
    /\ impl = "server"
    /\ Arrives(d)
    /\ IF req.method # "POST" THEN Reply(d, 405)
       ELSE IF ~ValidateWebhookSignature(req.body, req.sig, secret) THEN Reply(d, 401)
       ELSE IF req.event # "push" THEN Reply(d, 200)
       ELSE IF ~req.body.json THEN Reply(d, 400)
       ELSE Go(d)

\* Server.handleWebhook after the go statement: w.WriteHeader(http.StatusOK)
handleWebhook_Respond(d) ==
    /\ impl = "server"
    /\ hpc[d] = "respond"
    /\ Reply(d, 200)

\* a step of the goroutine that clears the command of a target that failed
Step_ClearCommand(d, pc, i, e, entries) ==
    /\ gpc' = [gpc EXCEPT ![d] = pc]
    /\ idx' = [idx EXCEPT ![d] = i]
    /\ err' = [err EXCEPT ![d] = e]
    /\ log' = [log EXCEPT ![d] = log[d] \o entries]
    /\ watchers' = IF pc = "notify" THEN [watchers EXCEPT ![i].Command = <<>>]
                   ELSE watchers
    /\ UNCHANGED <<hpc, status, impl, secret, req, vin, vout, ex, reg, wc>>

\* one step of the goroutine of delivery d
Step(d, pc, i, e, entries) ==
    /\ gpc' = [gpc EXCEPT ![d] = pc]
    /\ idx' = [idx EXCEPT ![d] = i]
    /\ err' = [err EXCEPT ![d] = e]
    /\ log' = [log EXCEPT ![d] = log[d] \o entries]
    /\ UNCHANGED <<hpc, status, config>>

\* the handler's loop goes on after folder i
Continue(d, i, entries) ==
    LET n == NextMatch(watchers, req.body, i + 1)
    IN  IF n = 0 THEN Step(d, "done", 0, NoErr, entries)
        ELSE Step(d, "fetch", n, NoErr, entries)

\* Handler.processPushEvent: the goroutine starts and finds the first match
processPushEvent(d) ==
    /\ impl = "handler"
    /\ gpc[d] = "start"
    /\ Continue(d, 0, <<>>)

\* git.Manager.Pull running the fetch again when it failed
Pull_Fetch_Retry(d) ==
    /\ impl = "handler"
    /\ gpc[d] = "fetch"
    /\ \E r \in FetchResults :
         LET entry == [op |-> "fetch", path |-> watchers[idx[d]].Path, result |-> r]
         IN  IF Pull_fetchError(r) # NoErr THEN Step(d, "fetch", idx[d], NoErr, <<entry>>)
             ELSE Step(d, "pull", idx[d], NoErr, <<entry>>)

\* git.Manager.Pull: git fetch origin
Pull_Fetch(d) ==
    /\ impl = "handler"
    /\ gpc[d] = "fetch"
    /\ \E r \in FetchResults :
         LET e == Pull_fetchError(r)
             entry == [op |-> "fetch", path |-> watchers[idx[d]].Path, result |-> r]
         IN  IF e # NoErr THEN Step(d, "notify", idx[d], e, <<entry>>)
             ELSE Step(d, "pull", idx[d], NoErr, <<entry>>)

\* git.Manager.Pull: git pull origin; then processUpdate looks at the command
Pull_Pull(d) ==
    /\ impl = "handler"
    /\ gpc[d] = "pull"
    /\ \E r \in PullResults :
         LET e == Pull_pullError(r)
             entry == [op |-> "pull", path |-> watchers[idx[d]].Path, result |-> r]
         IN  IF e # NoErr THEN Step(d, "notify", idx[d], e, <<entry>>)
             ELSE IF watchers[idx[d]].Command # <<>>
             THEN Step(d, "cmd", idx[d], NoErr, <<entry>>)
             ELSE Continue(d, idx[d], <<entry>>)

\* Handler.processUpdate: exec.Execute(folder.Command)
processUpdate_Execute(d) ==
    /\ impl = "handler"
    /\ gpc[d] = "cmd"
    /\ \E o \in ExecuteOutcomes("handler") :
         LET entry == [op |-> "cmd", path |-> watchers[idx[d]].Path, result |-> o]
         IN  IF o = "ok" THEN Continue(d, idx[d], <<entry>>)
             ELSE Step(d, "notify", idx[d],
                       [kind |-> "failure", msg |-> <<"command execution failed: ", o>>],
                       <<entry>>)

\* Handler.processPushEvent: h.notifier.SendFailureNotification; an error of
\* the mail server is logged, and the loop goes on
processPushEvent_Notify(d) ==
    /\ impl = "handler"
    /\ gpc[d] = "notify"
    /\ \E sent \in BOOLEAN :
         Continue(d, idx[d],
                  << [op |-> "notify", path |-> watchers[idx[d]].Path,
                      kind |-> "failure", msg |-> err[d].msg, sent |-> sent] >>)

\* Server.handlePushEvent holding a lock of the watcher's path from here to
\* its return: it waits while another run stands at that path
handlePushEvent_Locked(d) ==
    /\ impl = "server"
    /\ gpc[d] = "start"
    /\ LET i == serverTarget(watchers, req.body)
       IN  IF i = 0 THEN Step(d, "done", 0, NoErr, <<>>)
           ELSE /\ \A e \in DOMAIN hpc \ {d} : idx[e] # i
                /\ Step(d, "newmgr", i, NoErr, <<>>)

\* Server.handlePushEvent: the goroutine starts and looks the watcher up
handlePushEvent(d) ==
    /\ impl = "server"
    /\ gpc[d] = "start"
    /\ LET i == serverTarget(watchers, req.body)
       IN  IF i = 0 THEN Step(d, "done", 0, NoErr, <<>>)
           ELSE Step(d, "newmgr", i, NoErr, <<>>)

\* git.NewManager(watcher.Path): the .git directory is looked for
NewManager(d) ==
    /\ impl = "server"
    /\ gpc[d] = "newmgr"
    /\ \E exists \in BOOLEAN :
         IF exists THEN Step(d, "fetch", idx[d], NoErr, <<>>)
         ELSE Step(d, "notify", idx[d],
                   [kind |-> "failure", msg |-> <<"not a git repository: ">>],
                   << [op |-> "newmgr", path |-> watchers[idx[d]].Path,
                       result |-> "missing"] >>)

\* git.Manager.FetchAndPull: git fetch origin <branch>
FetchAndPull_Fetch(d) ==
    /\ impl = "server"
    /\ gpc[d] = "fetch"
    /\ \E r \in FetchResults :
         LET e == FetchAndPull_fetchError(r)
             entry == [op |-> "fetch", path |-> watchers[idx[d]].Path, result |-> r]
         IN  IF e # NoErr THEN Step(d, "notify", idx[d], e, <<entry>>)
             ELSE Step(d, "pull", idx[d], NoErr, <<entry>>)

\* Server.handlePushEvent running the executor without looking at the command
FetchAndPull_Pull_AlwaysRun(d) ==
    /\ impl = "server"
    /\ gpc[d] = "pull"
    /\ \E r \in PullResults :
         LET e == FetchAndPull_pullError(r)
             entry == [op |-> "pull", path |-> watchers[idx[d]].Path, result |-> r]
         IN  IF e # NoErr THEN Step(d, "notify", idx[d], e, <<entry>>)
             ELSE Step(d, "cmd", idx[d], NoErr, <<entry>>)

\* git.Manager.FetchAndPull: git pull origin <branch>; then handlePushEvent
\* looks at the command
FetchAndPull_Pull(d) ==
    /\ impl = "server"
    /\ gpc[d] = "pull"
    /\ \E r \in PullResults :
         LET e == FetchAndPull_pullError(r)
             entry == [op |-> "pull", path |-> watchers[idx[d]].Path, result |-> r]
         IN  IF e # NoErr THEN Step(d, "notify", idx[d], e, <<entry>>)
             ELSE IF watchers[idx[d]].Command # <<>>
             THEN Step(d, "cmd", idx[d], NoErr, <<entry>>)
             ELSE Step(d, "done", 0, NoErr, <<entry>>)

\* Server.handlePushEvent returning on a failed command without a notification
handlePushEvent_Execute_Silent(d) ==
    /\ impl = "server"
    /\ gpc[d] = "cmd"
    /\ \E o \in ExecuteOutcomes("server") :
         Step(d, "done", 0, NoErr,
              << [op |-> "cmd", path |-> watchers[idx[d]].Path, result |-> o] >>)

\* Server.handlePushEvent: exec.Execute(watcher.Command)
handlePushEvent_Execute(d) ==
    /\ impl = "server"
    /\ gpc[d] = "cmd"
    /\ \E o \in ExecuteOutcomes("server") :
         LET entry == [op |-> "cmd", path |-> watchers[idx[d]].Path, result |-> o]
         IN  IF o = "ok" THEN Step(d, "done", 0, NoErr, <<entry>>)
             ELSE Step(d, "notify", idx[d],
                       [kind |-> "command", msg |-> <<"command failed: ", o>>],
                       <<entry>>)

\* Server.handlePushEvent sending again when the mail server refuses
handlePushEvent_Notify_Retry(d) ==
    /\ impl = "server"
    /\ gpc[d] = "notify"
    /\ \E sent \in BOOLEAN :
         Step(d, IF sent THEN "done" ELSE "notify", IF sent THEN 0 ELSE idx[d],
              IF sent THEN NoErr ELSE err[d],
              << [op |-> "notify", path |-> watchers[idx[d]].Path,
                  kind |-> err[d].kind, msg |-> err[d].msg, sent |-> sent] >>)

\* Server.handlePushEvent: s.emailClient.Send...Notification; its error is
\* dropped, and the goroutine returns
handlePushEvent_Notify(d) ==
    /\ impl = "server"
    /\ gpc[d] = "notify"
    /\ \E sent \in BOOLEAN :
         Step(d, "done", 0, NoErr,
              << [op |-> "notify", path |-> watchers[idx[d]].Path,
                  kind |-> err[d].kind, msg |-> err[d].msg, sent |-> sent] >>)

Next ==
    \E d \in DOMAIN hpc :
        \/ ServeHTTP(d)
        \/ ServeHTTP_Respond(d)
        \/ processPushEvent(d)
        \/ Pull_Fetch(d)
        \/ Pull_Pull(d)
        \/ processUpdate_Execute(d)
        \/ processPushEvent_Notify(d)
        \/ handleWebhook(d)
        \/ handleWebhook_Respond(d)
        \/ handlePushEvent(d)
        \/ NewManager(d)
        \/ FetchAndPull_Fetch(d)
        \/ FetchAndPull_Pull(d)
        \/ handlePushEvent_Execute(d)
        \/ handlePushEvent_Notify(d)

Spec == Init /\ [][Next]_vars


-----------------------------------------------------------------------------
(* Vocabulary of the claims                                                *)

\* the header is one the implementation's verifier is documented to accept
\* (see C1_VerifyAccepts)
Verifies(i, header, payload, key) ==
    IF i = "handler"
    THEN header \in { CorrectSignature(payload, key),
                      EncodeToString(HMAC("sha256", key, payload)) }
    ELSE SpellsDigest(header, payload, key)

CorrectlySigned == req.sig = CorrectSignature(req.body, secret)

\* findTarget's test (spec 4.3): URLs match and the branch is the pushed one
TargetMatches(t, event) ==
    /\ normalizeGitURL(t.RepoURL) = normalizeGitURL(event.clone_url)
    /\ t.Branch = TrimPrefix(event.ref, RefsHeads)

MatchingTargets ==
    IF req.body.json
    THEN { i \in 1..Len(watchers) : TargetMatches(watchers[i], req.body) }
    ELSE {}

\* delivery d has run, or is about to run, git, a command or a notification
Works(d) ==
    \/ log[d] # <<>>
    \/ gpc[d] \in {"newmgr", "fetch", "pull", "cmd", "notify"}

\* delivery d has started no pipeline at all
NoPipeline(d) ==
    /\ gpc[d] = "none"
    /\ log[d] = <<>>

IsFetch(e) == e.op = "fetch"

\* the paths fetched by delivery d, in order
FetchedPaths(d) ==
    LET f == SelectSeq(log[d], IsFetch)
    IN  [i \in 1..Len(f) |-> f[i].path]

RECURSIVE PathsOf(_, _)
PathsOf(ws, event) ==
    IF ws = <<>> THEN <<>>
    ELSE (IF TargetMatches(Head(ws), event) THEN <<Head(ws).Path>> ELSE <<>>)
             \o PathsOf(Tail(ws), event)

IsPrefixOf(a, b) ==
    /\ Len(a) <= Len(b)
    /\ SubSeq(b, 1, Len(a)) = a

HasMarker(r) == Contains(r.stdout \o r.stderr, ConflictMarker)

-----------------------------------------------------------------------------
(* Claims                                                                  *)

C3_AsStated ==
    \A d \in DOMAIN hpc : Len(FetchedPaths(d)) <= 1

\* C3 amended: for one push delivery the server synchronizes at most one
\* target; the handler synchronizes every registered target that matches the
\* (clone URL, branch) pair, each once and in registration order, and does not
\* stop at the first.
C3_HandlerDeploysEveryMatch ==
    \A d \in DOMAIN hpc :
        /\ impl = "server" => Len(FetchedPaths(d)) <= 1
        /\ (impl = "handler" /\ gpc[d] # "none") =>
              /\ IsPrefixOf(FetchedPaths(d), PathsOf(watchers, req.body))
              /\ gpc[d] = "done" => FetchedPaths(d) = PathsOf(watchers, req.body)

\* the handler is through with a push that two targets match: both were pulled
C3_Witness ==
    \E d \in DOMAIN hpc :
        /\ impl = "handler"
        /\ gpc[d] = "done"
        /\ Cardinality(MatchingTargets) = 2
        /\ \E i, j \in 1..Len(log[d]) :
               /\ log[d][i].op = "pull" /\ log[d][j].op = "pull"
               /\ log[d][i].path # log[d][j].path

\* C4: when some target matches the push in URL and branch, the event
\* resolves to such a target, also when an earlier target watches the same
\* repository on another branch.
C4_MatchIsDeployed ==
    \A d \in DOMAIN hpc :
        (gpc[d] = "done" /\ MatchingTargets # {})
        => \E k \in 1..Len(log[d]) :
               \E i \in MatchingTargets : log[d][k].path = watchers[i].Path

\* C5: an accepted push that no target matches in both URL and branch is
\* answered 200 and runs no fetch, pull, command or notification.
C5_NoMatchNoWork ==
    \A d \in DOMAIN hpc :
        (gpc[d] # "none" /\ MatchingTargets = {})
        => /\ ~Works(d)
           /\ hpc[d] = "done" => status[d] = 200

\* a push to a watched repository on an unwatched branch went through
C5_Witness ==
    \E d \in DOMAIN hpc :
        /\ gpc[d] = "done" /\ hpc[d] = "done" /\ status[d] = 200
        /\ MatchingTargets = {}
        /\ \E i \in 1..Len(watchers) :
               CompareURLs(watchers[i].RepoURL, req.body.clone_url)

\* the entries of log[d] after position k that belong to the same target
LaterOf(d, k) ==
    { j \in (k + 1)..Len(log[d]) : log[d][j].path = log[d][k].path }

\* the command registered for the target at path p
CommandOf(p) ==
    watchers[CHOOSE i \in 1..Len(watchers) : watchers[i].Path = p].Command

\* C6 as stated: a pull whose output contains CONFLICT is followed by the
\* conflict notification, not by the generic one, and by no command.
C6_AsStated ==
    \A d \in DOMAIN hpc : \A k \in 1..Len(log[d]) :
        (log[d][k].op = "pull" /\ HasMarker(log[d][k].result))
        => /\ \A j \in LaterOf(d, k) :
                  /\ log[d][j].op # "cmd"
                  /\ log[d][j].op = "notify" => log[d][j].kind = "conflict"
           /\ gpc[d] = "done" => \E j \in LaterOf(d, k) : log[d][j].op = "notify"

\* C6 amended: when the pull exits non-zero with CONFLICT in its output, the
\* server sends the conflict notification carrying standard error and standard
\* output, the handler sends the generic failure notification carrying the
\* combined output, and neither runs the command; a pull that exits zero is a
\* success for both, whatever its output.
C6_FailedPullWithMarker ==
    \A d \in DOMAIN hpc : \A k \in 1..Len(log[d]) :
        (log[d][k].op = "pull" /\ HasMarker(log[d][k].result))
        => LET r == log[d][k].result
           IN  IF r.exit # 0
               THEN /\ \A j \in LaterOf(d, k) :
                           /\ log[d][j].op = "notify"
                           /\ j = k + 1
                           /\ log[d][j].kind = (IF impl = "server" THEN "conflict" ELSE "failure")
                           /\ Contains(log[d][j].msg, r.stdout \o r.stderr)
                               \/ Contains(log[d][j].msg, r.stderr \o r.stdout)
                    /\ gpc[d] = "done" => LaterOf(d, k) # {}
                    /\ LaterOf(d, k) = {} => gpc[d] = "notify"
               ELSE /\ LaterOf(d, k) # {} =>
                           /\ k + 1 \in LaterOf(d, k)
                           /\ log[d][k + 1].op = "cmd"
                    /\ (gpc[d] = "done" /\ CommandOf(log[d][k].path) # <<>>)
                           => LaterOf(d, k) # {}

\* the server has sent the conflict notification for a pull that failed with
\* the marker
C6_Witness ==
    \E d \in DOMAIN hpc : \E k \in 1..Len(log[d]) :
        /\ impl = "server"
        /\ log[d][k].op = "pull"
        /\ log[d][k].result.exit # 0
        /\ HasMarker(log[d][k].result)
        /\ k < Len(log[d])
        /\ log[d][k + 1].op = "notify"
        /\ log[d][k + 1].kind = "conflict"

\* C7 as stated: a correctly signed POST whose body is not JSON gets 400.
C7_AsStated ==
    \A d \in DOMAIN hpc :
        (req.method = "POST" /\ CorrectlySigned /\ ~req.body.json /\ hpc[d] # "idle")
        => /\ status[d] = 400
           /\ NoPipeline(d)

\* C7 amended: a correctly signed POST whose X-GitHub-Event is push and whose
\* body is not JSON gets 400 and starts no pipeline (with another event type
\* the body is not parsed and the answer is 200).
C7_BadPushBodyRejected ==
    \A d \in DOMAIN hpc :
        (/\ req.method = "POST" /\ CorrectlySigned /\ ~req.body.json
         /\ hpc[d] # "idle")
        => /\ hpc[d] = "done"
           /\ status[d] = (IF req.event = "push" THEN 400 ELSE 200)
           /\ NoPipeline(d)

\* a correctly signed push with a body that is not JSON was answered
C7_Witness ==
    \E d \in DOMAIN hpc :
        /\ req.method = "POST" /\ CorrectlySigned /\ ~req.body.json
        /\ req.event = "push"
        /\ status[d] = 400

\* C8: a correctly signed POST whose event is not push gets 200 and causes
\* no matching, fetch, pull, command or notification.
C8_OtherEventsIgnored ==
    \A d \in DOMAIN hpc :
        (req.method = "POST" /\ CorrectlySigned /\ req.event # "push" /\ hpc[d] # "idle")
        => /\ hpc[d] = "done"
           /\ status[d] = 200
           /\ NoPipeline(d)

\* a correctly signed ping whose body a target would match was answered
C8_Witness ==
    \E d \in DOMAIN hpc :
        /\ req.method = "POST" /\ CorrectlySigned /\ req.event = "ping"
        /\ MatchingTargets # {}
        /\ status[d] = 200

\* C9: for a correctly signed, parseable push the 200 is written without
\* waiting for the pipeline: the response step is enabled wherever the
\* goroutine stands, and the status is 200 whatever the goroutine did.
C9_ResponseDoesNotWait ==
    \A d \in DOMAIN hpc :
        (req.method = "POST" /\ CorrectlySigned /\ req.event = "push" /\ req.body.json)
        => /\ hpc[d] = "respond" => ENABLED (ServeHTTP_Respond(d) \/ handleWebhook_Respond(d))
           /\ hpc[d] = "done" => status[d] = 200

\* the 200 is out while the goroutine has not yet taken its first step
C9_Witness ==
    \E d \in DOMAIN hpc :
        /\ hpc[d] = "done" /\ status[d] = 200
        /\ gpc[d] = "start"
        /\ MatchingTargets # {}

LastIsPull(d) ==
    /\ log[d] # <<>>
    /\ log[d][Len(log[d])].op = "pull"

\* C10 as stated: a pull whose output contains CONFLICT is classified as a
\* conflict failure, for every exit status.
C10_AsStated ==
    \A d \in DOMAIN hpc :
        (LastIsPull(d) /\ HasMarker(log[d][Len(log[d])].result))
        => /\ gpc[d] = "notify"
           /\ err[d].kind = "conflict"

\* C10 amended: FetchAndPull returns the conflict failure exactly when the
\* pull exits non-zero and its standard output or standard error contains
\* CONFLICT; a pull that exits zero is a success whatever its output; the
\* handler's Manager.Pull never returns a conflict failure: a non-zero exit is
\* a generic failure with or without the marker.
C10_ConflictOnlyOnFailedPull ==
    \A d \in DOMAIN hpc :
        LastIsPull(d) =>
            LET r == log[d][Len(log[d])].result
            IN  /\ r.exit = 0 => err[d] = NoErr /\ gpc[d] # "notify"
                /\ r.exit # 0 =>
                      /\ gpc[d] = "notify"
                      /\ err[d].kind =
                            (IF impl = "server" /\ HasMarker(r) THEN "conflict" ELSE "failure")

\* FetchAndPull has just returned the conflict failure for a failed pull that
\* printed the marker on standard error
C10_Witness ==
    \E d \in DOMAIN hpc :
        /\ impl = "server"
        /\ LastIsPull(d)
        /\ log[d][Len(log[d])].result.exit # 0
        /\ Contains(log[d][Len(log[d])].result.stderr, ConflictMarker)
        /\ err[d].kind = "conflict"

InitVerify ==
    /\ vin \in [secret : SecretSet, payload : VerifyPayloads, header : Headers]
    /\ vout = NoResult
    /\ impl = "handler"
    /\ secret = Secrets[1]
    /\ watchers = <<>>
    /\ req = NoRequest
    /\ hpc = <<>> /\ status = <<>> /\ gpc = <<>>
    /\ idx = <<>> /\ err = <<>> /\ log = <<>>
    /\ ex = NoExec
    /\ reg = NoRegistry
    /\ wc = NoCheckout

\* the header is checked by both implementations
Verify ==
    /\ ~vout.done
    /\ vout' = [done |-> TRUE,
                handler |-> verifySignature(vin.payload, vin.header, vin.secret),
                server |-> ValidateWebhookSignature(vin.payload, vin.header, vin.secret)]
    /\ UNCHANGED <<vin, pipeVars, ex, reg, wc>>

NextVerify == Verify

SpecVerify == InitVerify /\ [][NextVerify]_vars

-----------------------------------------------------------------------------
(* Notifications                                                           *)

IsNotify(e) == e.op = "notify"

\* the log entry records a step that failed
Failed(e) ==
    \/ e.op = "newmgr"
    \/ e.op \in {"fetch", "pull"} /\ e.result.exit # 0
    \/ e.op = "cmd" /\ e.result # "ok"

\* the entries of log[d] that belong to the target at path p
EntriesOf(d, p) == { k \in 1..Len(log[d]) : log[d][k].path = p }

LoggedPaths(d) == { log[d][k].path : k \in 1..Len(log[d]) }

NotifiesOf(d, p) == { k \in EntriesOf(d, p) : IsNotify(log[d][k]) }

\* C14 as stated: one delivery sends no notification when it ends in success
\* or is skipped, and exactly one when it fails.
C14_AsStated ==
    \A d \in DOMAIN hpc :
        LET n == Len(SelectSeq(log[d], IsNotify))
            failed == \E k \in 1..Len(log[d]) : Failed(log[d][k])
        IN  /\ n <= 1
            /\ gpc[d] = "done" => (n = 1 <=> failed)

\* C14 amended: for every target a delivery processes, no notification is
\* sent when its pull and command succeed and exactly one, never two, when a
\* step fails (git manager, fetch, pull, command); nothing follows the
\* notification for that target.  The server processes at most one target
\* per delivery, so it sends at most one notification per delivery; the
\* handler processes every matching target and sends one notification per
\* failed target, so one delivery may send several.
C14_OneNotificationPerFailedTarget ==
    \A d \in DOMAIN hpc :
        /\ impl = "server" => Len(SelectSeq(log[d], IsNotify)) <= 1
        /\ \A p \in LoggedPaths(d) :
              LET n == Cardinality(NotifiesOf(d, p))
                  failed == \E k \in EntriesOf(d, p) : Failed(log[d][k])
              IN  /\ n <= 1
                  /\ n = 1 => failed
                  /\ gpc[d] = "done" => (failed => n = 1)
                  /\ \A k \in NotifiesOf(d, p) : \A j \in EntriesOf(d, p) : j <= k

\* the handler is through with a push for which two targets failed: two
\* notifications were sent for the one delivery
C14_Witness ==
    \E d \in DOMAIN hpc :
        /\ impl = "handler"
        /\ gpc[d] = "done"
        /\ Len(SelectSeq(log[d], IsNotify)) = 2

\* where the goroutine of delivery d stands once its notification is out
AfterNotify(d) ==
    IF impl = "server" THEN <<"done", 0>>
    ELSE LET n == NextMatch(watchers, req.body, idx[d] + 1)
         IN  IF n = 0 THEN <<"done", 0>> ELSE <<"fetch", n>>

-----------------------------------------------------------------------------
(* executor.Execute alone: one call, with the process it starts.  The      *)
(* handler's executor (package executor with a timeout) splits the command *)
(* with strings.Fields, runs it in a goroutine and races it against        *)
(* time.After; the server's executor hands the command to "sh -c" and      *)
(* waits for it.                                                           *)

\* number of chunks of output a process writes at most
MaxChunks == 2

Whitespace == {" ", "\t", "\n"}

\* strings.Fields: the maximal runs of characters that are no white space
RECURSIVE Fields(_)
Fields(s) ==
    IF s = <<>> THEN <<>>
    ELSE IF Head(s) \in Whitespace THEN Fields(Tail(s))
    ELSE LET n == IF \E i \in 1..Len(s) : s[i] \in Whitespace
                  THEN (CHOOSE i \in 1..Len(s) :
                            /\ s[i] \in Whitespace
                            /\ \A j \in 1..(i - 1) : s[j] \notin Whitespace) - 1
                  ELSE Len(s)
         IN  <<SubSeq(s, 1, n)>> \o Fields(SubSeq(s, n + 1, Len(s)))

\* the commands a target may be registered with
Commands ==
    { DeployCmd,
      <<"a"," ","&","&"," ","b">>,
      <<"e"," ","'","x"," ","y","'">>,
      <<"a","|","b">>,
      <<" ">> }

Sh == <<"s","h">>

DashC == <<"-","c">>

InitExec ==
    /\ impl \in {"handler", "server"}
    /\ ex \in { [command |-> c, mpc |-> "entry", cpc |-> "none", argv |-> <<>>,
                 proc |-> "none", code |-> 0, Process |-> FALSE, buf |-> <<>>,
                 output |-> <<>>, cerr |-> FALSE, done |-> <<>>,
                 atTimer |-> "none", tbuf |-> <<>>,
                 result |-> [kind |-> "none", output |-> <<>>]] : c \in Commands }
    /\ secret = Secrets[1]
    /\ watchers = <<>>
    /\ req = NoRequest
    /\ hpc = <<>> /\ status = <<>> /\ gpc = <<>>
    /\ idx = <<>> /\ err = <<>> /\ log = <<>>
    /\ vin = [secret |-> Secrets[1], payload |-> Payloads[1], header |-> <<>>]
    /\ vout = NoResult
    /\ reg = NoRegistry
    /\ wc = NoCheckout

execFrame == <<pipeVars, vin, vout, reg, wc>>

\* Execute returns to its caller
Return(kind, output) ==
    [ex EXCEPT !.mpc = "returned", !.result = [kind |-> kind, output |-> output]]

\* Executor.Execute (with timeout): strings.Fields, exec.Command, the go
\* statement
Execute ==
    /\ impl = "handler"
    /\ ex.mpc = "entry"
    /\ LET parts == Fields(ex.command)
       IN  IF Len(parts) = 0
           THEN ex' = Return("empty", <<>>)
           ELSE ex' = [ex EXCEPT !.argv = parts, !.mpc = "select", !.cpc = "start"]
    /\ UNCHANGED execFrame

\* the goroutine: cmd.CombinedOutput() starts the process (cmd.Start sets
\* cmd.Process), or fails to when the program is not found
Execute_func_Start ==
    /\ impl = "handler"
    /\ ex.cpc = "start"
    /\ \E found \in BOOLEAN :
         IF found
         THEN ex' = [ex EXCEPT !.cpc = "wait", !.proc = "running", !.Process = TRUE]
         ELSE ex' = [ex EXCEPT !.cpc = "send", !.cerr = TRUE]
    /\ UNCHANGED execFrame

\* the process writes to its standard output or standard error
Process_Write ==
    /\ ex.mpc # "none"
    /\ ex.proc = "running"
    /\ Len(ex.buf) < MaxChunks
    /\ ex' = [ex EXCEPT !.buf = Append(ex.buf, "x")]
    /\ UNCHANGED execFrame

\* the process exits by itself
Process_Exit ==
    /\ ex.mpc # "none"
    /\ ex.proc = "running"
    /\ \E c \in {0, 1} : ex' = [ex EXCEPT !.proc = "exited", !.code = c]
    /\ UNCHANGED execFrame

\* the goroutine: cmd.CombinedOutput() returns once the process is gone
Execute_func_Wait ==
    /\ impl = "handler"
    /\ ex.cpc = "wait"
    /\ ex.proc \in {"exited", "killed"}
    /\ ex' = [ex EXCEPT !.cpc = "send", !.output = ex.buf,
                        !.cerr = (ex.proc = "killed" \/ ex.code # 0)]
    /\ UNCHANGED execFrame

\* the goroutine: done <- err (the channel has room for one value)
Execute_func_Send ==
    /\ impl = "handler"
    /\ ex.cpc = "send"
    /\ ex' = [ex EXCEPT !.cpc = "end", !.done = <<ex.cerr>>]
    /\ UNCHANGED execFrame

\* the values a read of cmd.Process may see: the read is not ordered with the
\* write cmd.Start makes in the goroutine
ProcessSeen == IF ex.Process THEN {TRUE, FALSE} ELSE {FALSE}

\* what Process.Kill() leaves of the process
Kill(seen) == IF seen /\ ex.proc = "running" THEN "killed" ELSE ex.proc

\* Executor.Execute returning what the process has written so far
Execute_Timeout_KeepOutput ==
    /\ impl = "handler"
    /\ ex.mpc = "select"
    /\ \E seen \in ProcessSeen :
         ex' = [Return("timeout", ex.buf) EXCEPT
                    !.proc = Kill(seen), !.atTimer = ex.proc, !.tbuf = ex.buf]
    /\ UNCHANGED execFrame

\* Executor.Execute, case <-time.After(e.timeout): the timer may fire at any
\* moment of the select
Execute_Timeout ==
    /\ impl = "handler"
    /\ ex.mpc = "select"
    /\ \E seen \in ProcessSeen :
         ex' = [Return("timeout", <<>>) EXCEPT
                    !.proc = Kill(seen), !.atTimer = ex.proc, !.tbuf = ex.buf]
    /\ UNCHANGED execFrame

\* Executor.Execute, case err := <-done
Execute_Done ==
    /\ impl = "handler"
    /\ ex.mpc = "select"
    /\ ex.done # <<>>
    /\ ex' = [Return(IF ex.done[1] THEN "failed" ELSE "ok", ex.output) EXCEPT
                  !.done = <<>>]
    /\ UNCHANGED execFrame

\* Executor.Execute (sh -c): exec.Command("sh", "-c", command), cmd.Run starts
Execute_sh ==
    /\ impl = "server"
    /\ ex.mpc = "entry"
    /\ ex' = [ex EXCEPT !.argv = <<Sh, DashC, ex.command>>, !.mpc = "run",
                        !.proc = "running", !.Process = TRUE]
    /\ UNCHANGED execFrame

\* Executor.Execute (sh -c): cmd.Run returns once the shell is gone
Execute_sh_Return ==
    /\ impl = "server"
    /\ ex.mpc = "run"
    /\ ex.proc = "exited"
    /\ ex' = [Return(IF ex.code # 0 THEN "failed" ELSE "ok", ex.buf) EXCEPT
                  !.output = ex.buf]
    /\ UNCHANGED execFrame

NextExec ==
    \/ Execute
    \/ Execute_func_Start
    \/ Process_Write
    \/ Process_Exit
    \/ Execute_func_Wait
    \/ Execute_func_Send
    \/ Execute_Timeout
    \/ Execute_Done
    \/ Execute_sh
    \/ Execute_sh_Return

SpecExec == InitExec /\ [][NextExec]_vars

\* C11: when the timer fires while the command is running, Execute returns
\* the timeout with the process terminated; in no interleaving does a process
\* started by the call run after Execute has returned the timeout.
C11_NoProcessAfterTimeout ==
    ex.result.kind = "timeout" => ex.proc # "running"

\* C12 as stated: the timeout result carries what the process had written
\* when it was terminated.
C12_AsStated ==
    ex.result.kind = "timeout" => ex.result.output = ex.tbuf

\* C12 amended: when Execute ends in a timeout it returns the empty string as
\* output, whatever the process had written; only the result of a process
\* that ended by itself carries the captured output.
C12_TimeoutDropsOutput ==
    /\ ex.result.kind = "timeout" => ex.result.output = <<>>
    /\ ex.result.kind \in {"ok", "failed"} => ex.result.output = ex.output

\* the timer fired on a running process that had written output
C12_Witness ==
    /\ ex.result.kind = "timeout"
    /\ ex.atTimer = "running"
    /\ ex.tbuf # <<>>

\* C13: the command is handed to one shell as one string, never split on
\* white space into a program and literal arguments.
C13_OneShellString ==
    ex.argv # <<>> => ex.argv = <<Sh, DashC, ex.command>>

-----------------------------------------------------------------------------
(* The registry commands alone: deployer add-folder / remove-folder        *)
(* (cli.runAddFolder, cli.runRemoveFolder, used with the handler) and      *)
(* Config.AddWatcher / Config.RemoveWatcher (the server's configuration).  *)
(* The commands run one after the other on the persisted configuration.    *)

\* number of registry commands run
MaxOps == 3

\* what is on disk at the paths an operator may type: a clone on main, a
\* clone on stg, a linked worktree (its .git is a file), a plain directory
\* and nothing at all
Checkouts ==
    [p \in {"/a", "/b", "/w", "/d", "/n"} |->
        CASE p = "/a" -> [dotgit |-> "dir", git |-> TRUE,
                          branch |-> MainBranch, remote |-> RemoteHTTPS]
          [] p = "/b" -> [dotgit |-> "dir", git |-> TRUE,
                          branch |-> StgBranch, remote |-> RemoteSSH]
          [] p = "/w" -> [dotgit |-> "file", git |-> TRUE,
                          branch |-> MainBranch, remote |-> RemoteHTTPS]
          [] p = "/d" -> [dotgit |-> "none", git |-> FALSE,
                          branch |-> <<>>, remote |-> <<>>]
          [] OTHER    -> [dotgit |-> "none", git |-> FALSE,
                          branch |-> <<>>, remote |-> <<>>]]

TypedPaths == DOMAIN Checkouts

\* git.IsGitRepository: os.Stat(path/.git) succeeds and names a directory
IsGitRepository(path) == Checkouts[path].dotgit = "dir"

\* the handler's registry entry (config.WatchedFolder)
WatchedFolder(path, command, branch, repoURL) ==
    [Path |-> path, Command |-> command, Branch |-> branch, RepoURL |-> repoURL]

InitRegistry ==
    /\ impl \in {"handler", "server"}
    /\ reg = [pc |-> "idle", saved |-> <<>>, cfg |-> <<>>, path |-> "",
              branch |-> <<>>, url |-> <<>>, ops |-> 0,
              last |-> "none", before |-> <<>>, result |-> "none"]
    /\ secret = Secrets[1]
    /\ watchers = <<>>
    /\ req = NoRequest
    /\ hpc = <<>> /\ status = <<>> /\ gpc = <<>>
    /\ idx = <<>> /\ err = <<>> /\ log = <<>>
    /\ vin = [secret |-> Secrets[1], payload |-> Payloads[1], header |-> <<>>]
    /\ vout = NoResult
    /\ ex = NoExec
    /\ wc = NoCheckout

regFrame == <<pipeVars, vin, vout, ex, wc>>

\* a command ends: with an error (nothing written) or having saved cfg
Fails(r) == [r EXCEPT !.pc = "idle", !.result = "error"]

\* cli.runAddFolder: config.Load and the path typed by the operator
runAddFolder ==
    /\ impl = "handler"
    /\ reg.pc = "idle"
    /\ reg.ops < MaxOps
    /\ \E p \in TypedPaths :
         reg' = [reg EXCEPT !.pc = "check", !.cfg = reg.saved, !.path = p,
                            !.ops = reg.ops + 1, !.last = "add",
                            !.before = reg.saved, !.result = "none"]
    /\ UNCHANGED regFrame

\* cli.runAddFolder going on without the repository check
runAddFolder_Check_Skip ==
    /\ impl = "handler"
    /\ reg.pc = "check"
    /\ reg' = [reg EXCEPT !.pc = "branch"]
    /\ UNCHANGED regFrame

\* cli.runAddFolder: git.IsGitRepository(repoPath)
runAddFolder_Check ==
    /\ impl = "handler"
    /\ reg.pc = "check"
    /\ reg' = IF IsGitRepository(reg.path) THEN [reg EXCEPT !.pc = "branch"]
              ELSE Fails(reg)
    /\ UNCHANGED regFrame

\* cli.runAddFolder: gitMgr.GetCurrentBranch()
runAddFolder_Branch ==
    /\ impl = "handler"
    /\ reg.pc = "branch"
    /\ reg' = IF Checkouts[reg.path].git
              THEN [reg EXCEPT !.pc = "url", !.branch = Checkouts[reg.path].branch]
              ELSE Fails(reg)
    /\ UNCHANGED regFrame

\* cli.runAddFolder: gitMgr.GetRemoteURL()
runAddFolder_URL ==
    /\ impl = "handler"
    /\ reg.pc = "url"
    /\ reg' = IF Checkouts[reg.path].git
              THEN [reg EXCEPT !.pc = "save",
                               !.url = normalizeGitURL(Checkouts[reg.path].remote)]
              ELSE Fails(reg)
    /\ UNCHANGED regFrame

\* cli.runAddFolder: the command is typed, the folder is appended and
\* config.Save writes the file, or fails to
runAddFolder_Save ==
    /\ impl = "handler"
    /\ reg.pc = "save"
    /\ \E c \in {<<>>, DeployCmd}, written \in BOOLEAN :
         LET cfg == Append(reg.cfg, WatchedFolder(reg.path, c, reg.branch, reg.url))
         IN  reg' = IF written
                    THEN [reg EXCEPT !.pc = "idle", !.cfg = cfg, !.saved = cfg,
                                     !.result = "ok"]
                    ELSE [Fails(reg) EXCEPT !.cfg = cfg]
    /\ UNCHANGED regFrame

\* the sequence without its element number n
RemoveAt(seq, n) == SubSeq(seq, 1, n - 1) \o SubSeq(seq, n + 1, Len(seq))

\* cli.runRemoveFolder: the operator types a number; 0 cancels
runRemoveFolder ==
    /\ impl = "handler"
    /\ reg.pc = "idle"
    /\ reg.ops < MaxOps
    /\ Len(reg.saved) > 0
    /\ \E num \in 0..(Len(reg.saved) + 1), written \in BOOLEAN :
         LET r == [reg EXCEPT !.ops = reg.ops + 1, !.last = "remove",
                              !.before = reg.saved, !.cfg = reg.saved]
         IN  reg' = IF num > Len(reg.saved) THEN Fails(r)
                    ELSE IF num = 0 THEN [r EXCEPT !.result = "ok"]
                    ELSE IF written
                    THEN [r EXCEPT !.cfg = RemoveAt(reg.saved, num),
                                   !.saved = RemoveAt(reg.saved, num),
                                   !.result = "ok"]
                    ELSE [Fails(r) EXCEPT !.cfg = RemoveAt(reg.saved, num)]
    /\ UNCHANGED regFrame

\* Config.AddWatcher: a path already registered is refused
AddWatcher ==
    /\ impl = "server"
    /\ reg.pc = "idle"
    /\ reg.ops < MaxOps
    /\ \E p \in TypedPaths, written \in BOOLEAN :
         LET w == Register(p, RemoteHTTPS, MainBranch, DeployCmd)
             r == [reg EXCEPT !.ops = reg.ops + 1, !.last = "add", !.path = p,
                              !.before = reg.saved, !.cfg = reg.saved]
         IN  reg' = IF \E i \in 1..Len(reg.saved) : reg.saved[i].Path = p
                    THEN Fails(r)
                    ELSE IF written
                    THEN [r EXCEPT !.cfg = Append(reg.saved, w),
                                   !.saved = Append(reg.saved, w), !.result = "ok"]
                    ELSE [Fails(r) EXCEPT !.cfg = Append(reg.saved, w)]
    /\ UNCHANGED regFrame

\* Config.RemoveWatcher: every watcher of the path is dropped
RemoveWatcher ==
    /\ impl = "server"
    /\ reg.pc = "idle"
    /\ reg.ops < MaxOps
    /\ \E p \in TypedPaths, written \in BOOLEAN :
         LET Keep(w) == w.Path # p
             newWatchers == SelectSeq(reg.saved, Keep)
             r == [reg EXCEPT !.ops = reg.ops + 1, !.last = "remove", !.path = p,
                              !.before = reg.saved, !.cfg = reg.saved]
         IN  reg' = IF newWatchers = reg.saved THEN Fails(r)
                    ELSE IF written
                    THEN [r EXCEPT !.cfg = newWatchers, !.saved = newWatchers,
                                   !.result = "ok"]
                    ELSE [Fails(r) EXCEPT !.cfg = newWatchers]
    /\ UNCHANGED regFrame

NextRegistry ==
    \/ runAddFolder
    \/ runAddFolder_Check
    \/ runAddFolder_Branch
    \/ runAddFolder_URL
    \/ runAddFolder_Save
    \/ runRemoveFolder
    \/ AddWatcher
    \/ RemoveWatcher

SpecRegistry == InitRegistry /\ [][NextRegistry]_vars

\* C16: after any sequence of registrations and removals no two targets of
\* the registry share a path; registering a registered path is rejected.
C16_UniquePaths ==
    /\ \A i, j \in 1..Len(reg.saved) :
           i # j => reg.saved[i].Path # reg.saved[j].Path
    /\ (/\ reg.last = "add" /\ reg.pc = "idle"
        /\ \E i \in 1..Len(reg.before) : reg.before[i].Path = reg.path)
       => reg.result = "error" /\ reg.saved = reg.before

\* C17: add-folder on a path that is no directory with a .git directory
\* fails and leaves the persisted registry as it was; a folder is only added
\* after that check, with the branch and the remote URL read from the
\* checkout.
C17_OnlyRepositoriesAdded ==
    impl = "handler" =>
        /\ (reg.last = "add" /\ reg.pc = "idle" /\ ~IsGitRepository(reg.path))
           => reg.result = "error" /\ reg.saved = reg.before
        /\ (reg.last = "add" /\ ~IsGitRepository(reg.path)) => reg.saved = reg.before
        /\ \A i \in 1..Len(reg.saved) :
              LET f == reg.saved[i]
              IN  /\ IsGitRepository(f.Path)
                  /\ f.Branch = Checkouts[f.Path].branch
                  /\ f.RepoURL = normalizeGitURL(Checkouts[f.Path].remote)

\* add-folder was refused for a linked worktree, whose .git is a file, with
\* a clone already registered
C17_Witness ==
    /\ impl = "handler"
    /\ reg.last = "add" /\ reg.pc = "idle"
    /\ reg.path = "/w"
    /\ reg.result = "error"
    /\ Len(reg.saved) > 0

-----------------------------------------------------------------------------
(* The branch of a pushed ref, computed by both entry points               *)

RefPrefixes ==
    { <<>>, RefsHeads, RefsHeads \o RefsHeads, SubSeq(RefsHeads, 1, Len(RefsHeads) - 1),
      SubSeq(RefsHeads, 2, Len(RefsHeads)), <<"r","e","f","s","/","t","a","g","s","/">>, <<"R","e","f","s","/","h","e","a","d","s","/">> }

RefNames ==
    { <<>>, MainBranch, StgBranch, <<"x">>, <<"a","/","b">>, <<"/">>, RefsHeads \o <<"x">>,
      <<"m","a","i","n","/">> }

\* the refs a push event may carry, and strings that are not quite refs
Refs == { p \o n : p \in RefPrefixes, n \in RefNames }

InitBranch ==
    /\ vin \in [ref : Refs]
    /\ vout = NoResult
    /\ impl = "handler"
    /\ secret = Secrets[1]
    /\ watchers = <<>>
    /\ req = NoRequest
    /\ hpc = <<>> /\ status = <<>> /\ gpc = <<>>
    /\ idx = <<>> /\ err = <<>> /\ log = <<>>
    /\ ex = NoExec
    /\ reg = NoRegistry
    /\ wc = NoCheckout

\* both entry points compute the branch of the ref
ExtractBranch ==
    /\ ~vout.done
    /\ vout' = [done |-> TRUE,
                handler |-> handlerBranch(vin.ref),
                server |-> extractBranchFromRef(vin.ref)]
    /\ UNCHANGED <<vin, pipeVars, ex, reg, wc>>

NextBranch == ExtractBranch

SpecBranch == InitBranch /\ [][NextBranch]_vars

\* the ref without a leading refs/heads/
Stripped(r) ==
    IF HasPrefix(r, RefsHeads) THEN SubSeq(r, Len(RefsHeads) + 1, Len(r)) ELSE r

\* C18 as stated: for every ref both entry points use the ref without a
\* leading refs/heads/ (the empty branch for the ref refs/heads/ itself).
C18_AsStated ==
    vout.done =>
        /\ vout.handler = Stripped(vin.ref)
        /\ vout.server = Stripped(vin.ref)

\* C18 amended: Handler.processPushEvent uses the ref without a leading
\* refs/heads/ for every ref; extractBranchFromRef removes the prefix only
\* from a ref longer than the prefix, so the two agree on every ref except
\* refs/heads/ itself, for which the handler uses the empty branch and the
\* server the whole ref.
C18_BranchOfRef ==
    vout.done =>
        /\ vout.handler = Stripped(vin.ref)
        /\ vout.server = (IF vin.ref = RefsHeads THEN RefsHeads ELSE Stripped(vin.ref))

\* the ref refs/heads/ went through both: empty for the handler, unchanged
\* for the server
C18_Witness ==
    /\ vout.done
    /\ vin.ref = RefsHeads
    /\ vout.handler = <<>>
    /\ vout.server = RefsHeads

-----------------------------------------------------------------------------
(* git.CompareURLs on the two spellings of a repository                    *)

UrlHosts == { <<"g","i","t","h","u","b",".","c","o","m">>, <<"G","i","t","H","u","b",".","c","o","m">>, <<"g","i","t","l","a","b",".","c","o","m">> }

UrlOwners == { <<"O">>, <<"o">>, <<"p">> }

UrlNames == { <<"r">>, <<"R">>, <<"z">> }

\* a repository URL as git or GitHub writes it: git@host:owner/repo or
\* https://host/owner/repo, with or without .git
RepoURLs ==
    [form : {"ssh", "https"}, host : UrlHosts, owner : UrlOwners,
     name : UrlNames, dotgit : BOOLEAN]

\* the URL as a string
Spell(u) ==
    (IF u.form = "ssh" THEN GitAt \o u.host \o <<":">> ELSE HttpsScheme \o u.host \o <<"/">>)
        \o u.owner \o <<"/">> \o u.name \o (IF u.dotgit THEN DotGit ELSE <<>>)

InitURL ==
    /\ vin \in [a : RepoURLs, b : RepoURLs]
    /\ vout = [done |-> FALSE, match |-> FALSE]
    /\ impl = "handler"
    /\ secret = Secrets[1]
    /\ watchers = <<>>
    /\ req = NoRequest
    /\ hpc = <<>> /\ status = <<>> /\ gpc = <<>>
    /\ idx = <<>> /\ err = <<>> /\ log = <<>>
    /\ ex = NoExec
    /\ reg = NoRegistry
    /\ wc = NoCheckout

\* git.CompareURLs is applied to the two URLs
Compare ==
    /\ ~vout.done
    /\ vout' = [done |-> TRUE, match |-> CompareURLs(Spell(vin.a), Spell(vin.b))]
    /\ UNCHANGED <<vin, pipeVars, ex, reg, wc>>

NextURL == Compare

SpecURL == InitURL /\ [][NextURL]_vars

\* the two URLs name the same repository: host, owner and name are equal up
\* to letter case
SameRepository(a, b) ==
    /\ ToLower(a.host) = ToLower(b.host)
    /\ ToLower(a.owner) = ToLower(b.owner)
    /\ ToLower(a.name) = ToLower(b.name)

\* C19: CompareURLs holds exactly when the normalized URLs are equal; the
\* SSH and the HTTPS spelling of one repository match whatever the letter
\* case and with or without .git, and URLs that differ in host, owner or
\* name do not match.
C19_MatchIffSameRepository ==
    vout.done =>
        /\ vout.match <=> normalizeGitURL(Spell(vin.a)) = normalizeGitURL(Spell(vin.b))
        /\ vout.match <=> SameRepository(vin.a, vin.b)

\* an SSH URL with .git and an HTTPS URL without, in different letter case,
\* were found to match
C19_Witness ==
    /\ vout.done
    /\ vout.match
    /\ vin.a.form = "ssh" /\ vin.a.dotgit
    /\ vin.b.form = "https" /\ ~vin.b.dotgit
    /\ vin.a.owner # vin.b.owner
    /\ vin.a.host # vin.b.host

-----------------------------------------------------------------------------
(* The pull alone: one registered working copy, its remote, an operator    *)
(* who may check out another branch, and pushes that trigger the pull.     *)
(* wc.tree[h][b] is the number of commits of origin/b the local branch h   *)
(* contains.                                                               *)

\* number of commits pushed to one branch
MaxCommits == 2

Branches == {MainBranch, StgBranch}

NoPull == [remote |-> <<>>, into |-> <<>>, commit |-> 0]

\* add-folder has just registered the working copy with the branch checked out
InitPull ==
    /\ impl \in {"handler", "server"}
    /\ \E b \in Branches :
         wc = [pc |-> "idle", registered |-> b, head |-> b,
               remote |-> [r \in Branches |-> 0],
               tree |-> [h \in Branches |-> [r \in Branches |-> 0]],
               last |-> NoPull]
    /\ secret = Secrets[1]
    /\ watchers = <<>>
    /\ req = NoRequest
    /\ hpc = <<>> /\ status = <<>> /\ gpc = <<>>
    /\ idx = <<>> /\ err = <<>> /\ log = <<>>
    /\ vin = [secret |-> Secrets[1], payload |-> Payloads[1], header |-> <<>>]
    /\ vout = NoResult
    /\ ex = NoExec
    /\ reg = NoRegistry

pullFrame == <<pipeVars, vin, vout, ex, reg>>

\* the operator checks out another branch in the working copy
Checkout ==
    /\ wc.pc # "none"
    /\ \E b \in Branches \ {wc.head} : wc' = [wc EXCEPT !.head = b]
    /\ UNCHANGED pullFrame

\* a commit is pushed to branch b of the remote; the push event of the
\* registered branch is matched and starts the deployment
Push ==
    /\ wc.pc = "idle"
    /\ \E b \in Branches :
         /\ wc.remote[b] < MaxCommits
         /\ wc' = [wc EXCEPT !.remote[b] = wc.remote[b] + 1,
                             !.pc = IF b = wc.registered THEN "pull" ELSE "idle"]
    /\ UNCHANGED pullFrame

\* git.Manager.Pull: git fetch origin; git pull origin, which merges the
\* upstream of the branch checked out
Manager_Pull ==
    /\ impl = "handler"
    /\ wc.pc = "pull"
    /\ wc' = [wc EXCEPT !.pc = "idle",
                        !.tree[wc.head][wc.head] = wc.remote[wc.head],
                        !.last = [remote |-> wc.head, into |-> wc.head,
                                  commit |-> wc.remote[wc.head]]]
    /\ UNCHANGED pullFrame

\* git.Manager.FetchAndPull(branch): git fetch origin <branch>; git pull
\* origin <branch>, which merges that branch into the branch checked out
Manager_FetchAndPull ==
    /\ impl = "server"
    /\ wc.pc = "pull"
    /\ wc' = [wc EXCEPT !.pc = "idle",
                        !.tree[wc.head][wc.registered] = wc.remote[wc.registered],
                        !.last = [remote |-> wc.registered, into |-> wc.head,
                                  commit |-> wc.remote[wc.registered]]]
    /\ UNCHANGED pullFrame

NextPull ==
    \/ Checkout
    \/ Push
    \/ Manager_Pull
    \/ Manager_FetchAndPull

SpecPull == InitPull /\ [][NextPull]_vars

\* C20: the pull run for a matched target pulls the target's registered
\* branch, also when another branch is checked out in the working copy.
C20_PullsRegisteredBranch ==
    wc.last # NoPull =>
        /\ wc.last.remote = wc.registered
        /\ wc.tree[wc.last.into][wc.registered] = wc.last.commit

-----------------------------------------------------------------------------
(* Synchronize: fetch, then pull, of one target                            *)

\* C21: when the fetch of a target fails, synchronize returns a failure that
\* is not a conflict failure and carries the fetch's error text; no pull and
\* no command is run for that target in that run, and the generic failure
\* notification is the one step that follows.
C21_FetchFailureStops ==
    \A d \in DOMAIN hpc : \A k \in 1..Len(log[d]) :
        (log[d][k].op = "fetch" /\ log[d][k].result.exit # 0)
        => LET r == log[d][k].result
           IN  /\ \A j \in LaterOf(d, k) :
                      /\ j = k + 1
                      /\ log[d][j].op = "notify"
                      /\ log[d][j].kind = "failure"
                      /\ Contains(log[d][j].msg, r.stderr)
               /\ LaterOf(d, k) = {} =>
                      /\ gpc[d] = "notify"
                      /\ watchers[idx[d]].Path = log[d][k].path
                      /\ err[d].kind = "failure"
                      /\ Contains(err[d].msg, r.stderr)
               /\ gpc[d] = "done" => LaterOf(d, k) # {}

\* a run is through whose fetch failed with CONFLICT in its error text: the
\* generic notification went out for a target that has a command
C21_Witness ==
    \E d \in DOMAIN hpc : \E k \in 1..Len(log[d]) :
        /\ gpc[d] = "done"
        /\ log[d][k].op = "fetch"
        /\ log[d][k].result.exit # 0
        /\ Contains(log[d][k].result.stderr, ConflictMarker)
        /\ CommandOf(log[d][k].path) # <<>>
        /\ k < Len(log[d])
        /\ log[d][k + 1].op = "notify"
        /\ log[d][k + 1].kind = "failure"

\* what synchronize returned for the target of log[d][k], its last git step:
\* the kind of the error the caller notifies, or "success"
Outcome(d, k) ==
    IF LaterOf(d, k) # {}
    THEN IF log[d][k + 1].op = "notify" THEN log[d][k + 1].kind ELSE "success"
    ELSE IF gpc[d] = "notify" /\ watchers[idx[d]].Path = log[d][k].path
         THEN err[d].kind
         ELSE "success"

\* C22 as stated: synchronize returns Success exactly when fetch and pull
\* exited zero and the pull output carries no CONFLICT marker.
C22_AsStated ==
    \A d \in DOMAIN hpc : \A k \in 1..Len(log[d]) :
        log[d][k].op = "pull"
        => (Outcome(d, k) = "success"
              <=> (log[d][k].result.exit = 0 /\ ~HasMarker(log[d][k].result)))

\* C22 amended: synchronize returns Success exactly when the fetch exited zero
\* and the pull exited zero, whatever the pull printed; the pull is run only
\* after a fetch that exited zero; a pull that exits non-zero without the
\* marker is the generic failure, and with the marker it is the conflict
\* failure of the server and the generic failure of the handler.
C22_SuccessIffBothExitZero ==
    \A d \in DOMAIN hpc : \A k \in 1..Len(log[d]) :
        LET r == log[d][k].result
        IN  /\ log[d][k].op = "fetch" =>
                  /\ r.exit # 0 => Outcome(d, k) # "success"
                  /\ (r.exit = 0 /\ LaterOf(d, k) = {}) =>
                        /\ gpc[d] = "pull"
                        /\ watchers[idx[d]].Path = log[d][k].path
            /\ log[d][k].op = "pull" =>
                  /\ k > 1
                  /\ log[d][k - 1].op = "fetch"
                  /\ log[d][k - 1].path = log[d][k].path
                  /\ log[d][k - 1].result.exit = 0
                  /\ Outcome(d, k) =
                        (IF r.exit = 0 THEN "success"
                         ELSE IF impl = "server" /\ HasMarker(r) THEN "conflict"
                         ELSE "failure")

\* a pull that exited zero with CONFLICT in its output was a success: the
\* command of the target was run next
C22_Witness ==
    \E d \in DOMAIN hpc : \E k \in 1..Len(log[d]) :
        /\ log[d][k].op = "pull"
        /\ log[d][k].result.exit = 0
        /\ HasMarker(log[d][k].result)
        /\ k < Len(log[d])
        /\ log[d][k + 1].op = "cmd"
        /\ log[d][k + 1].path = log[d][k].path

-----------------------------------------------------------------------------
(* The steps of one run                                                    *)

\* the goroutine of delivery d stands at the target of log[d][k]
AtTargetOf(d, k) ==
    /\ gpc[d] \in {"newmgr", "fetch", "pull", "cmd", "notify"}
    /\ watchers[idx[d]].Path = log[d][k].path

\* C23: the command of a target starts only after synchronize of that target
\* returned Success, and only if its command string is non-empty; with an
\* empty command the successful pull is the last step for that target: no
\* executor, no notification.
C23_CommandOnlyAfterSuccess ==
    \A d \in DOMAIN hpc :
        /\ gpc[d] = "cmd" =>
              /\ LastIsPull(d)
              /\ log[d][Len(log[d])].path = watchers[idx[d]].Path
              /\ log[d][Len(log[d])].result.exit = 0
              /\ watchers[idx[d]].Command # <<>>
        /\ \A k \in 1..Len(log[d]) :
              /\ log[d][k].op = "cmd" =>
                    /\ k > 2
                    /\ log[d][k - 1].op = "pull"
                    /\ log[d][k - 1].path = log[d][k].path
                    /\ log[d][k - 1].result.exit = 0
                    /\ log[d][k - 2].op = "fetch"
                    /\ log[d][k - 2].path = log[d][k].path
                    /\ log[d][k - 2].result.exit = 0
                    /\ CommandOf(log[d][k].path) # <<>>
              /\ (/\ log[d][k].op = "pull"
                  /\ log[d][k].result.exit = 0
                  /\ CommandOf(log[d][k].path) = <<>>) =>
                    /\ LaterOf(d, k) = {}
                    /\ ~AtTargetOf(d, k)
                    /\ impl = "server" => gpc[d] = "done"

\* a run is through whose last step is the successful pull of a target
\* registered without a command
C23_Witness ==
    \E d \in DOMAIN hpc :
        /\ gpc[d] = "done"
        /\ LastIsPull(d)
        /\ log[d][Len(log[d])].result.exit = 0
        /\ CommandOf(log[d][Len(log[d])].path) = <<>>

\* the attempts of step op on the target at path p by delivery d
Attempts(d, p, op) == { k \in EntriesOf(d, p) : log[d][k].op = op }

-----------------------------------------------------------------------------
(* Termination of a run.  The command is a process of its own: it may exit *)
(* with either status, or never.  The handler's Execute waits for the      *)
(* process or for time.After(e.timeout); the server's Execute is cmd.Run,  *)
(* which returns when the process is gone.  git and the mail server always *)
(* answer.                                                                 *)

InitLive ==
    /\ impl \in {"handler", "server"}
    /\ secret = Secrets[1]
    /\ watchers \in Registries
    /\ req \in Requests
    /\ hpc = [d \in Deliveries |-> "idle"]
    /\ status = [d \in Deliveries |-> 0]
    /\ gpc = [d \in Deliveries |-> "none"]
    /\ idx = [d \in Deliveries |-> 0]
    /\ err = [d \in Deliveries |-> NoErr]
    /\ log = [d \in Deliveries |-> <<>>]
    /\ vin = [secret |-> Secrets[1], payload |-> Payloads[1], header |-> <<>>]
    /\ vout = NoResult
    /\ ex = [d \in Deliveries |-> "none"]
    /\ reg = NoRegistry
    /\ wc = NoCheckout

liveFrame == <<impl, secret, watchers, req, vin, vout, reg, wc, hpc, status>>

\* Executor.Execute up to the start of the process: cmd.CombinedOutput in the
\* goroutine of the handler's executor, cmd.Run in the server's
Execute_Start(d) ==
    /\ gpc[d] = "cmd"
    /\ gpc' = [gpc EXCEPT ![d] = "exec"]
    /\ ex' = [ex EXCEPT ![d] = "running"]
    /\ UNCHANGED <<idx, err, log, liveFrame>>

\* the process of the command exits by itself
Command_Exit(d) ==
    /\ ex[d] = "running"
    /\ \E o \in {"ok", "failed"} : ex' = [ex EXCEPT ![d] = o]
    /\ UNCHANGED <<gpc, idx, err, log, liveFrame>>

\* what processUpdate does with the result o of Execute
processUpdate_Result(d, o) ==
    LET entry == [op |-> "cmd", path |-> watchers[idx[d]].Path, result |-> o]
        n == NextMatch(watchers, req.body, idx[d] + 1)
    IN  /\ log' = [log EXCEPT ![d] = log[d] \o <<entry>>]
        /\ IF o # "ok"
           THEN /\ gpc' = [gpc EXCEPT ![d] = "notify"]
                /\ err' = [err EXCEPT ![d] =
                              [kind |-> "failure", msg |-> <<"command execution failed: ", o>>]]
                /\ UNCHANGED idx
           ELSE /\ gpc' = [gpc EXCEPT ![d] = IF n = 0 THEN "done" ELSE "fetch"]
                /\ idx' = [idx EXCEPT ![d] = n]
                /\ err' = [err EXCEPT ![d] = NoErr]

\* Executor.Execute (with timeout), case err := <-done
processUpdate_Execute_Done(d) ==
    /\ impl = "handler"
    /\ gpc[d] = "exec"
    /\ ex[d] \in {"ok", "failed"}
    /\ processUpdate_Result(d, ex[d])
    /\ UNCHANGED <<ex, liveFrame>>

\* Executor.Execute (with timeout), case <-time.After(e.timeout): the process
\* is killed if cmd.Process is seen
processUpdate_Execute_Timeout(d) ==
    /\ impl = "handler"
    /\ gpc[d] = "exec"
    /\ processUpdate_Result(d, "timeout")
    /\ \E seen \in BOOLEAN :
         ex' = [ex EXCEPT ![d] = IF seen /\ ex[d] = "running" THEN "killed" ELSE ex[d]]
    /\ UNCHANGED liveFrame

\* Executor.Execute (sh -c): cmd.Run has returned; handlePushEvent goes on
handlePushEvent_Execute_Return(d) ==
    /\ impl = "server"
    /\ gpc[d] = "exec"
    /\ ex[d] \in {"ok", "failed"}
    /\ log' = [log EXCEPT ![d] = log[d] \o
                  << [op |-> "cmd", path |-> watchers[idx[d]].Path, result |-> ex[d]] >>]
    /\ IF ex[d] = "ok"
       THEN /\ gpc' = [gpc EXCEPT ![d] = "done"]
            /\ idx' = [idx EXCEPT ![d] = 0]
            /\ err' = [err EXCEPT ![d] = NoErr]
       ELSE /\ gpc' = [gpc EXCEPT ![d] = "notify"]
            /\ err' = [err EXCEPT ![d] =
                          [kind |-> "command", msg |-> <<"command failed: ", ex[d]>>]]
            /\ UNCHANGED idx
    /\ UNCHANGED <<ex, liveFrame>>

\* the steps the program takes by itself: handlers, goroutines, the timer
Program(d) ==
    \/ ServeHTTP(d)
    \/ ServeHTTP_Respond(d)
    \/ processPushEvent(d)
    \/ Pull_Fetch(d)
    \/ Pull_Pull(d)
    \/ processUpdate_Execute_Done(d)
    \/ processUpdate_Execute_Timeout(d)
    \/ processPushEvent_Notify(d)
    \/ handleWebhook(d)
    \/ handleWebhook_Respond(d)
    \/ handlePushEvent(d)
    \/ NewManager(d)
    \/ FetchAndPull_Fetch(d)
    \/ FetchAndPull_Pull(d)
    \/ Execute_Start(d)
    \/ handlePushEvent_Execute_Return(d)
    \/ handlePushEvent_Notify(d)

NextLive ==
    \E d \in DOMAIN hpc :
        \/ Program(d)
        \/ Command_Exit(d)

\* every handler and goroutine that can take a step takes it, and the timer
\* fires; nothing makes the command exit
SpecLive ==
    /\ InitLive
    /\ [][NextLive]_vars
    /\ \A d \in Deliveries : WF_vars(Program(d))

\* C25: every run that has started reaches Done, also when the command never
\* exits.
C25_RunReachesDone ==
    \A d \in Deliveries : (gpc[d] = "start") ~> (gpc[d] = "done")

-----------------------------------------------------------------------------
(* One push event delivered twice: the second request arrives while the    *)
(* run of the first may still be going on.                                 *)

TwoDeliveries == {1, 2}

InitRedelivery ==
    /\ impl \in {"handler", "server"}
    /\ secret = Secrets[1]
    /\ watchers \in Registries
    /\ req \in Requests
    /\ hpc = [d \in TwoDeliveries |-> "idle"]
    /\ status = [d \in TwoDeliveries |-> 0]
    /\ gpc = [d \in TwoDeliveries |-> "none"]
    /\ idx = [d \in TwoDeliveries |-> 0]
    /\ err = [d \in TwoDeliveries |-> NoErr]
    /\ log = [d \in TwoDeliveries |-> <<>>]
    /\ vin = [secret |-> Secrets[1], payload |-> Payloads[1], header |-> <<>>]
    /\ vout = NoResult
    /\ ex = NoExec
    /\ reg = NoRegistry
    /\ wc = NoCheckout

SpecRedelivery == InitRedelivery /\ [][Next]_vars

\* the request passes the method, signature, event-type and parse checks of
\* the implementation that receives it
Accepted ==
    /\ req.method = "POST"
    /\ IF impl = "handler" THEN verifySignature(req.body, req.sig, secret)
       ELSE ValidateWebhookSignature(req.body, req.sig, secret)
    /\ req.event = "push"
    /\ req.body.json

\* the run of delivery d is through and went through match and synchronize:
\* the handler fetched every matching target, the server began on its watcher
RanOnItsOwn(d) ==
    IF impl = "handler"
    THEN FetchedPaths(d) = PathsOf(watchers, req.body)
    ELSE LET i == serverTarget(watchers, req.body)
         IN  IF i = 0 THEN log[d] = <<>>
             ELSE /\ log[d] # <<>>
                  /\ log[d][1].path = watchers[i].Path
                  /\ log[d][1].op \in {"newmgr", "fetch"}

\* C26: every delivery that passes the checks starts one run, also when a run
\* for the same push event was started before; a delivery that fails a check
\* starts none; every run matches and synchronizes by itself, each step at
\* most once.
C26_OneRunPerDelivery ==
    \A d \in DOMAIN hpc :
        /\ hpc[d] \in {"respond", "done"} => (gpc[d] # "none" <=> Accepted)
        /\ hpc[d] = "idle" => NoPipeline(d)
        /\ gpc[d] = "done" => RanOnItsOwn(d)
        /\ \A p \in LoggedPaths(d) :
              Cardinality(Attempts(d, p, "fetch")) <= 1

\* both deliveries of one push are through; each fetched the same target,
\* the fetch of the first failed and the second pulled
C26_Witness ==
    /\ gpc[1] = "done" /\ gpc[2] = "done"
    /\ log[1] # <<>> /\ log[2] # <<>>
    /\ log[1][1].path = log[2][1].path
    /\ log[1][1].op = "fetch" /\ log[1][1].result.exit # 0
    /\ \E k \in 1..Len(log[2]) :
          log[2][k].op = "pull" /\ log[2][k].result.exit = 0

-----------------------------------------------------------------------------
(* The registry during request processing                                  *)

\* C27: no step of a request handler or of a run changes the list of targets
\* the process was started with (paths, branches, remote URLs, commands,
\* order), and none runs a registry command or writes the configuration
\* file.
C27_RegistryReadOnly ==
    [][watchers' = watchers /\ reg' = reg]_vars

\* a run is through with a conflict notification, and the registry is one of
\* those the process can be started with
C27_Witness ==
    \E d \in DOMAIN hpc :
        /\ gpc[d] = "done"
        /\ \E k \in 1..Len(log[d]) : IsNotify(log[d][k]) /\ log[d][k].kind = "conflict"
        /\ watchers \in Registries
        /\ reg = NoRegistry

-----------------------------------------------------------------------------
(* Overlapping runs                                                        *)

\* the run of delivery d is inside its fetch/pull/command phase at path p
Inside(d, p) ==
    /\ gpc[d] \in {"newmgr", "fetch", "pull", "cmd"}
    /\ watchers[idx[d]].Path = p

\* the next step of the goroutine of delivery d
Run(d) ==
    \/ processPushEvent(d)
    \/ Pull_Fetch(d)
    \/ Pull_Pull(d)
    \/ processUpdate_Execute(d)
    \/ processPushEvent_Notify(d)
    \/ handlePushEvent(d)
    \/ NewManager(d)
    \/ FetchAndPull_Fetch(d)
    \/ FetchAndPull_Pull(d)
    \/ handlePushEvent_Execute(d)
    \/ handlePushEvent_Notify(d)

-----------------------------------------------------------------------------
(* A remote URL stored at registration and compared at delivery:           *)
(* GetRemoteURL returns normalizeGitURL(remote.origin.url), the folder     *)
(* keeps it as RepoURL, and CompareURLs normalizes it once more.           *)

\* what remote.origin.url may end in
RemoteSuffixes == { <<>>, DotGit, <<".","G","I","T">>, DotGit \o DotGit }

\* remote.origin.url: git@host:owner/repo, https://host/owner/repo or
\* host/owner/repo, followed by one of the suffixes
RemoteURLs ==
    { (IF f = "ssh" THEN GitAt \o h \o <<":">>
       ELSE IF f = "https" THEN HttpsScheme \o h \o <<"/">>
       ELSE h \o <<"/">>) \o <<"O","/">> \o n \o s :
        f \in {"ssh", "https", "bare"},
        h \in { <<"g","i","t","h","u","b",".","c","o","m">>,
                <<"G","i","t","H","u","b",".","c","o","m">> },
        n \in { <<"r">>, <<"z">> },
        s \in RemoteSuffixes }

\* repository.clone_url of a push event
CloneURLs ==
    { GitHubURL \o <<"O","/">> \o n \o s : n \in { <<"r">>, <<"z">> }, s \in { <<>>, DotGit } }

InitStore ==
    /\ vin \in [remote : RemoteURLs, clone : CloneURLs]
    /\ vout = [pc |-> "add"]
    /\ impl = "handler"
    /\ secret = Secrets[1]
    /\ watchers = <<>>
    /\ req = NoRequest
    /\ hpc = <<>> /\ status = <<>> /\ gpc = <<>>
    /\ idx = <<>> /\ err = <<>> /\ log = <<>>
    /\ ex = NoExec
    /\ reg = NoRegistry
    /\ wc = NoCheckout

\* git.Manager.GetRemoteURL: the normalized remote URL is what is stored
GetRemoteURL ==
    /\ vout.pc = "add"
    /\ vout' = [pc |-> "stored", RepoURL |-> normalizeGitURL(vin.remote)]
    /\ UNCHANGED <<vin, pipeVars, ex, reg, wc>>

\* Handler.processPushEvent: git.CompareURLs(folder.RepoURL, clone URL)
CompareStored ==
    /\ vout.pc = "stored"
    /\ vout' = [pc |-> "compared", RepoURL |-> vout.RepoURL,
                match |-> CompareURLs(vout.RepoURL, vin.clone)]
    /\ UNCHANGED <<vin, pipeVars, ex, reg, wc>>

NextStore ==
    \/ GetRemoteURL
    \/ CompareStored

SpecStore == InitStore /\ [][NextStore]_vars

\* C29 as stated: the stored URL is a fixed point of normalizeGitURL, and it
\* matches a clone URL exactly when the raw remote URL matches it.
C29_AsStated ==
    /\ vout.pc # "add" => normalizeGitURL(vout.RepoURL) = vout.RepoURL
    /\ vout.pc = "compared" => (vout.match <=> CompareURLs(vin.remote, vin.clone))

\* C29 amended: normalizing a normalized URL only strips one more ".git": the
\* stored URL is a fixed point exactly when it does not end in ".git", and
\* then it matches the clone URLs the raw remote URL matches; it does not end
\* in ".git" when the remote URL ends in one lower-case ".git" or in none.
\* A remote URL ending in ".git.git" or in an upper-case ".GIT" is stored
\* with a ".git" that the comparison strips.
C29_IdempotentUpToDotGit ==
    vout.pc # "add" =>
        LET stored == vout.RepoURL
            fixed == normalizeGitURL(stored) = stored
        IN  /\ normalizeGitURL(stored) = TrimSuffix(stored, DotGit)
            /\ fixed <=> ~HasSuffix(stored, DotGit)
            /\ (~HasSuffix(vin.remote, DotGit \o DotGit)
                  /\ ~HasSuffix(vin.remote, <<".","G","I","T">>)) => fixed
            /\ (fixed /\ vout.pc = "compared")
                  => (vout.match <=> CompareURLs(vin.remote, vin.clone))

\* an SSH remote with a mixed-case host was stored, is a fixed point, and
\* matched the clone URL of its repository
C29_Witness ==
    /\ vout.pc = "compared"
    /\ HasPrefix(vin.remote, GitAt)
    /\ vin.remote # ToLower(vin.remote)
    /\ HasSuffix(vin.remote, DotGit)
    /\ normalizeGitURL(vout.RepoURL) = vout.RepoURL
    /\ vout.match

-----------------------------------------------------------------------------
(* Config.AddWatcher and Config.RemoveWatcher: memory and file             *)

\* C30: when AddWatcher or RemoveWatcher returns an error, the watcher list
\* in memory is the list before the call and equals the file; a successful
\* RemoveWatcher leaves the watchers of other paths, in their order.
C30_FailedCallChangesNothing ==
    (impl = "server" /\ reg.pc = "idle") =>
        /\ reg.result = "error" =>
              /\ reg.cfg = reg.before
              /\ reg.cfg = reg.saved
        /\ (reg.last = "remove" /\ reg.result = "ok") =>
              LET Others(w) == w.Path # reg.path
              IN  /\ reg.cfg = SelectSeq(reg.before, Others)
                  /\ reg.saved = reg.cfg

====
